---- MODULE Spec2Model ----
(***************************************************************************)
(* Model of the client-side real-time layer of management-hub:             *)
(* frontend/src/services/websocket.js (class WebSocketService) together    *)
(* with the browser WebSocket objects it creates and the reconnect timers  *)
(* it arms; the components that use it (components/Chat.js, pages/Tasks.js,*)
(* components/Notifications.js); the auth slice (store/slices/authSlice.js)*)
(* and the REST client's interceptors (services/api.js); the e-mail        *)
(* preference check of the EmailService; and the server-side               *)
(* PresenceTracker, RoomRegistry and MessageRouter of spec.md sections     *)
(* 4.2 to 4.4.                                                             *)
(***************************************************************************)
EXTENDS Integers, Sequences, FiniteSets, TLC

(* ------------------------------ bounds -------------------------------- *)
MaxSockets  == 3    \* WebSocket objects created in one run
MaxFrames   == 2    \* message events in one run
MaxMsgs     == 1    \* sendMessage calls in one run
MaxHandlers == 2    \* length of one key's handler list
MaxText     == 2    \* characters typed into the chat input
MaxChatSends == 4   \* sendMessage calls made by the Chat component in one run
MaxUpdates  == 2    \* status changes started on the Tasks page in one run
MaxBroadcasts == 2  \* broadcasts begun by the server in one run
MaxTime     == 4    \* seconds of one run of the typing scenario

(* ----------------------- inputs of the operations --------------------- *)
Urls     == {"/ws/chat/"}
Rooms    == {"general", "standup"}
Handlers == {"h1", "h2"}

\* close codes the client can observe (spec.md section 6 plus 1006, the code
\* a browser reports when the connection is lost or fails to be established)
Codes == {1000, 1006, 1011, 4401, 4429}

\* the codes of an ordinary session: clean close, lost connection, server error
BasicCodes == {1000, 1006, 1011}

\* websocket.js:9  const connectionKey = `${url}_${room}`
ConnectionKey(url, room) == <<url, "_", room>>

\* Tasks.js:274  the project whose socket the Tasks page opens
SelectedProject == "7"

ProjectKey == ConnectionKey("/ws/project/", SelectedProject)

\* Notifications.js:58  user.id of the user whose notifications are shown
UserId == "1"

NotificationsKey == ConnectionKey("/ws/notifications/", UserId)

Keys == {ConnectionKey(u, r) : u \in Urls, r \in Rooms}
        \cup {ProjectKey, NotificationsKey}

\* the components that open a socket in an effect
Components == {"Chat", "Tasks", "Notifications"}

\* websocket.js:47  setTimeout(..., 3000)
ReconnectDelayMs == 3000

VARIABLES
  connections,      \* this.connections: key -> socket id, 0 when the key is absent
  messageHandlers,  \* this.messageHandlers: key -> handler list, <<>> when absent
  isConnecting,     \* this.isConnecting: key -> flag, FALSE when absent
  sockets,          \* every WebSocket created by connect, by id
  timers,           \* pending setTimeout reconnect callbacks, oldest first
  credential,       \* the token callers currently pass to connect
  desired,          \* key -> whether the caller's latest request for it was
                    \* connect (TRUE) or disconnect / disconnectAll (FALSE)
  lastClose,        \* event.code of the latest close event, 0 before the first
  frames,           \* number of message events fired so far
  lastFrame,        \* the latest message event: its socket, whether it parsed
  calls,            \* the handlers invoked for the latest message event, in order
  msgs,             \* every sendMessage call: its key and the socket whose
                    \* send() took it, 0 when the console.error branch ran
  chat,             \* the Chat component: mounted, newMessage (the input's
                    \* text), typingTimeoutRef (0 for null, else a timeout id)
  timeouts,         \* the typing timeouts: how many were armed so far, and
                    \* the pending ones with the time they are due
  now,              \* the clock, in ms
  chatView,         \* what the Chat component shows: messages, onlineUsers,
                    \* typingUsers
  tasksPage,        \* the Tasks page: fetches (fetchTasks dispatched by its
                    \* socket handler), started (status changes so far),
                    \* pending (the updateTask requests not yet resumed)
  taskStatus,       \* the status of the task as committed by the REST API
  email,            \* one call of EmailService.isEmailNotificationEnabled:
                    \* its arguments and its result ("none" before the call)
  srvConns,         \* server: each Connection's state, room, the number of
                    \* broadcasts its room had begun when it joined, and the
                    \* envelopes its task has still to broadcast
  registry,         \* server: RoomRegistry: members and last sequence number
                    \* of each room, the broadcasts in their critical
                    \* section, and the envelopes of each room in the order
                    \* their broadcasts began
  presence,         \* server: PresenceTracker: reference count and status of
                    \* each (room, user)
  inbox,            \* server: the envelopes each Connection was handed
  router,           \* server: MessageRouter and HistoryStore: the chat
                    \* frames handled so far, the ids of the messages in
                    \* the history, and the errors returned to each sender
  auth,             \* the auth slice of the redux store: user, access,
                    \* refresh ("null" for null)
  storage,          \* localStorage: the items 'access' and 'refresh'
                    \* ("null" when the key is absent)
  http,             \* one request made through the axios instance of
                    \* api.js and what its response interceptor did
  mounts,           \* the effects of the Chat, Tasks and Notifications
                    \* components ("none" before the first render, then
                    \* "skipped" or "ran"), and the Chat component's history
                    \* request and loading flag
  chatHist          \* history of the Chat component: time of the latest
                    \* keystroke, and the number of sendMessage calls made
                    \* before the latest rejected submit (-1 when none yet),
                    \* the number of message events before the latest frame
                    \* of an unknown type (-1 when none yet)

\* the state of the WebSocketService and of its sockets
serviceVars == <<connections, messageHandlers, isConnecting, sockets, timers,
                 credential, desired, lastClose, frames, lastFrame, calls, msgs>>

\* the state of the components and collaborators around the service
chatVars == <<chat, timeouts, now, chatView, chatHist>>

tasksVars == <<tasksPage, taskStatus>>

\* the collaborators the components do not touch
serverVars == <<srvConns, registry, presence, inbox>>

\* the auth state, its persisted copy, the REST client and the history
\* load of the Chat component
pageVars == <<auth, storage, http, mounts>>

restVars == <<email, serverVars, router, pageVars>>

appVars == <<chatVars, tasksVars, restVars>>

vars == <<serviceVars, appVars>>

\* the groups of variables an operation leaves alone
connVars  == <<connections, isConnecting, sockets, timers, lastClose>>
frameVars == <<frames, lastFrame, calls>>

SockIds == 1..Len(sockets)

KeyOf(s) == ConnectionKey(sockets[s].url, sockets[s].room)

\* the server of spec.md: three connections, A and B of user ann (two
\* browser tabs) and C of user bob, and two rooms
SrvConns == {"A", "B", "C"}

SrvUsers == {"ann", "bob"}

SrvRooms == {"standup", "design"}

UserOf(c) == IF c = "C" THEN "bob" ELSE "ann"

\* the users and the tokens the REST API issues
Users == {"ann"}

AccessTokens == {"acc1", "acc2"}

RefreshTokens == {"ref1"}

\* the requests made through the axios instance of api.js in one run
Requests == {"r1", "r2"}

\* axios: a request that was not made yet. sends holds the Authorization
\* header of each time the request was issued, retry is config._retry,
\* refreshes counts the posts to /auth/token/refresh/ made for it, fresh is
\* the access token of its refresh response, status the status of its
\* latest response (0 before the first)
NewRequest ==
  [phase |-> "idle", retry |-> FALSE, sends |-> <<>>, refreshes |-> 0,
   fresh |-> "null", status |-> 0, logout |-> FALSE]

\* websocket.js:2-6  constructor; the components not yet mounted; the server
\* without connections; nobody logged in
InitApp ==
  /\ connections     = [k \in Keys |-> 0]
  /\ messageHandlers = [k \in Keys |-> <<>>]
  /\ isConnecting    = [k \in Keys |-> FALSE]
  /\ sockets    = <<>>
  /\ timers     = <<>>
  /\ credential = "tokA"
  /\ desired    = [k \in Keys |-> FALSE]
  /\ lastClose  = 0
  /\ frames     = 0
  /\ lastFrame  = [sock |-> 0, valid |-> FALSE]
  /\ calls      = <<>>
  /\ msgs       = <<>>
  /\ chat       = [mounted |-> FALSE, newMessage |-> <<>>, typingTimeoutRef |-> 0]
  /\ timeouts   = [armed |-> 0, pending |-> {}]
  /\ now        = 0
  /\ chatView   = [messages |-> <<>>, onlineUsers |-> <<>>, typingUsers |-> <<>>]
  /\ chatHist   = [lastKey |-> -1, rejectedAt |-> -1, unknownAt |-> -1]
  /\ tasksPage  = [fetches |-> 0, started |-> 0, pending |-> {}]
  /\ taskStatus = "todo"
  /\ srvConns = [c \in SrvConns |->
                  [state |-> "connecting", room |-> "", joinedAt |-> 0, todo |-> <<>>]]
  /\ registry = [members  |-> [r \in SrvRooms |-> {}],
                 seq      |-> [r \in SrvRooms |-> 0],
                 inflight |-> {},
                 log      |-> [r \in SrvRooms |-> <<>>]]
  /\ presence = [refs   |-> [ru \in SrvRooms \X SrvUsers |-> 0],
                 status |-> [ru \in SrvRooms \X SrvUsers |-> "offline"]]
  /\ inbox = [c \in SrvConns |-> <<>>]
  /\ router = [handled |-> 0, history |-> {},
               errors |-> [c \in SrvConns |-> {}]]
  /\ mounts = [effect |-> [c \in Components |-> "none"], request |-> "none",
               loading |-> TRUE]
  /\ http = [r \in Requests |-> NewRequest]

\* the JavaScript values a preference flag can hold: the booleans, and
\* undefined for a flag that is absent
FlagValues == {"true", "false", "undefined"}

Flags == {"task_assignments", "task_updates", "project_updates",
          "deadline_reminders", "mentions", "comments", "other"}

\* the userPreferences argument: null, an object without email_notifications,
\* or an object whose email_notifications block holds enabled and the flags
Preferences ==
  {[isNull |-> TRUE, hasBlock |-> FALSE, block |-> [f \in Flags \cup {"enabled"} |-> "undefined"]],
   [isNull |-> FALSE, hasBlock |-> FALSE, block |-> [f \in Flags \cup {"enabled"} |-> "undefined"]]}
  \cup {[isNull |-> FALSE, hasBlock |-> TRUE, block |-> b] :
          b \in [Flags \cup {"enabled"} -> FlagValues]}

\* the notificationType argument: the six types with a flag of their own,
\* and two without
NotificationTypes ==
  {"task_assigned", "task_updated", "project_updated", "deadline_reminder",
   "mention", "comment_added", "other", "comment_deleted"}

\* localStorage.getItem(key): null when the key is absent
getItem(store, key) == store[key]

\* String(value), the conversion localStorage.setItem applies to its value
StringOf(value) ==
  CASE value = "null" -> "'null'"
    [] value = "undefined" -> "'undefined'"
    [] OTHER -> value

\* localStorage.setItem(key, value)
setItem(store, key, value) == [store EXCEPT ![key] = StringOf(value)]

\* localStorage.removeItem(key)
removeItem(store, key) == [store EXCEPT ![key] = "null"]

\* authSlice.js:4-10  initialState
initialState(store) ==
  [user |-> "null", access |-> getItem(store, "access"),
   refresh |-> getItem(store, "refresh")]

\* nothing persisted by an earlier visit
NoSession ==
  /\ storage = [access |-> "null", refresh |-> "null"]
  /\ auth = initialState(storage)

Init ==
  /\ InitApp
  /\ NoSession
  /\ email = [prefs |-> CHOOSE pr \in Preferences : pr.isNull,
              type |-> "other", result |-> "none"]

(* -------------------------- pure helpers ------------------------------ *)
\* websocket.js:22  new WebSocket(wsUrl): a socket starts in CONNECTING.
\* url/room/token are what the closures of lines 24-54 capture; opened and
\* attempt are history kept for the properties: whether the socket ever
\* reached OPEN, and which consecutive reconnect attempt created it (0 for a
\* caller's connect).
NewSocket(url, room, token, attempt) ==
  [url |-> url, room |-> room, token |-> token, readyState |-> "CONNECTING",
   opened |-> FALSE, attempt |-> attempt]

\* variant: an authentication failure is not retried either
ShouldReconnectExceptAuth(code) == code \notin {1000, 4401}

\* websocket.js:44  if (event.code !== 1000)
ShouldReconnect(code) == code # 1000

Min(a, b) == IF a <= b THEN a ELSE b

\* number of entries of seq equal to x
Count(x, seq) == Cardinality({i \in 1..Len(seq) : seq[i] = x})

\* the nominal delay of spec.md section 4.6: base 1 s, factor 2, cap 30 s
NominalBackoff(n) == Min(1000 * 2^(n-1), 30000)

\* variant: exponential backoff
backoffDelay(code, n) == NominalBackoff(n)

\* variant: a rate-limited client waits twice as long
rateLimitDelay(code, n) ==
  IF code = 4429 THEN 2 * ReconnectDelayMs ELSE ReconnectDelayMs

\* websocket.js:45-47  setTimeout(() => {...}, 3000): the delay does not
\* depend on the close code nor on n, the number of the consecutive attempt
reconnectDelay(code, n) == ReconnectDelayMs

\* websocket.js:31  JSON.parse(event.data): a frame's text either parses to
\* an object or makes JSON.parse throw
JSONParse(text) ==
  IF text.valid THEN [ok |-> TRUE, data |-> text.body]
  ELSE [ok |-> FALSE, data |-> "SyntaxError"]

\* websocket.js:103-109  handlers.forEach(handler => { try { handler(data) }
\* catch ... }): every list entry is called once, in list order; the result
\* is the sequence of calls made
RECURSIVE forEachHandler(_, _, _)
forEachHandler(handlers, data, made) ==
  IF handlers = <<>> THEN made
  ELSE forEachHandler(Tail(handlers), data, Append(made, Head(handlers)))

\* the distinct entries of a handler list, in order of first appearance
RECURSIVE Distinct(_)
Distinct(handlers) ==
  IF handlers = <<>> THEN <<>>
  ELSE LET init == Distinct(SubSeq(handlers, 1, Len(handlers) - 1))
           last == handlers[Len(handlers)] IN
       IF Count(last, init) > 0 THEN init ELSE Append(init, last)

\* variant: a handler registered several times is called once
handleMessageDistinct(connectionKey, data) ==
  forEachHandler(Distinct(messageHandlers[connectionKey]), data, <<>>)

\* websocket.js:101-110  handleMessage(connectionKey, data)
handleMessage(connectionKey, data) ==
  forEachHandler(messageHandlers[connectionKey], data, <<>>)

\* Array.prototype.indexOf: first index of handler, 0 when it is not there
IndexOf(handlers, handler) ==
  IF \E i \in 1..Len(handlers) : handlers[i] = handler
  THEN CHOOSE i \in 1..Len(handlers) :
         /\ handlers[i] = handler
         /\ \A j \in 1..(i-1) : handlers[j] # handler
  ELSE 0

\* Array.prototype.splice(index, 1)
Splice1(handlers, index) ==
  [i \in 1..(Len(handlers)-1) |->
     IF i < index THEN handlers[i] ELSE handlers[i+1]]

\* WebSocket.close(): CONNECTING and OPEN sockets start closing, the others
\* are left alone
close(socks, s) ==
  IF socks[s].readyState \in {"CONNECTING", "OPEN"}
  THEN [socks EXCEPT ![s].readyState = "CLOSING"]
  ELSE socks

\* websocket.js:8-58  connect(url, room, token): the maps and the socket
\* table after the call, and the value returned (0 for null)
connect(socks, url, room, token, attempt) ==
  LET connectionKey == ConnectionKey(url, room) IN
  IF connections[connectionKey] # 0
  THEN [conns |-> connections, isc |-> isConnecting, socks |-> socks,
        ret |-> connections[connectionKey]]
  ELSE IF isConnecting[connectionKey]
  THEN [conns |-> connections, isc |-> isConnecting, socks |-> socks,
        ret |-> 0]
  ELSE [conns |-> [connections EXCEPT ![connectionKey] = Len(socks) + 1],
        isc   |-> [isConnecting EXCEPT ![connectionKey] = TRUE],
        socks |-> Append(socks, NewSocket(url, room, token, attempt)),
        ret   |-> Len(socks) + 1]

(* ------------------------------ actions ------------------------------- *)
\* a caller (Chat.js:46, Notifications.js:58, Tasks.js:274) calls connect
\* with the token of the auth state
Connect(url, room) ==
  LET r == connect(sockets, url, room, credential, 0) IN
  /\ Len(r.socks) <= MaxSockets
  /\ connections' = r.conns
  /\ isConnecting' = r.isc
  /\ sockets' = r.socks
  /\ desired' = [desired EXCEPT ![ConnectionKey(url, room)] = TRUE]
  /\ UNCHANGED <<messageHandlers, timers, credential, lastClose, frameVars, msgs>>
  /\ UNCHANGED appVars

\* authSlice.js:44-47  updateAccessToken: the access token is replaced, and
\* callers pass the new one from then on
RefreshCredential ==
  /\ credential = "tokA"
  /\ credential' = "tokB"
  /\ UNCHANGED <<connVars, messageHandlers, desired, frameVars, msgs>>
  /\ UNCHANGED appVars

\* variant: onopen sends what sendMessage refused for the key
onopenFlush(s) ==
  /\ s \in SockIds
  /\ sockets[s].readyState = "CONNECTING"
  /\ sockets' = [sockets EXCEPT ![s].readyState = "OPEN", ![s].opened = TRUE]
  /\ isConnecting' = [isConnecting EXCEPT ![KeyOf(s)] = FALSE]
  /\ msgs' = [i \in 1..Len(msgs) |->
               IF msgs[i].sock = 0 /\ msgs[i].key = KeyOf(s)
               THEN [msgs[i] EXCEPT !.sock = s] ELSE msgs[i]]
  /\ UNCHANGED <<connections, messageHandlers, timers, credential, desired,
                 lastClose, frameVars>>
  /\ UNCHANGED appVars

\* websocket.js:24-27  ws.onopen
onopen(s) ==
  /\ s \in SockIds
  /\ sockets[s].readyState = "CONNECTING"
  /\ sockets' = [sockets EXCEPT ![s].readyState = "OPEN", ![s].opened = TRUE]
  /\ isConnecting' = [isConnecting EXCEPT ![KeyOf(s)] = FALSE]
  /\ UNCHANGED <<connections, messageHandlers, timers, credential, desired,
                 lastClose, frameVars, msgs>>
  /\ UNCHANGED appVars

\* websocket.js:29-36  ws.onmessage; the browser fires message events only
\* while the socket is OPEN
onmessage(s, valid) ==
  LET parsed == JSONParse([body |-> "frame", valid |-> valid]) IN
  /\ s \in SockIds
  /\ sockets[s].readyState = "OPEN"
  /\ frames < MaxFrames
  /\ frames' = frames + 1
  /\ lastFrame' = [sock |-> s, valid |-> valid]
  /\ calls' = IF parsed.ok THEN handleMessage(KeyOf(s), parsed.data) ELSE <<>>
  /\ UNCHANGED <<connVars, messageHandlers, credential, desired, msgs>>
  /\ UNCHANGED appVars

\* websocket.js:51-54  ws.onerror: the flag map after the handler
onerror(isc, s) == [isc EXCEPT ![KeyOf(s)] = FALSE]

\* variant: onclose forgets the key's handlers, as disconnect does
oncloseForgetsHandlers(s, code, isc) ==
  LET connectionKey == KeyOf(s)
      n == IF sockets[s].opened THEN 1 ELSE sockets[s].attempt + 1 IN
  /\ connections' = [connections EXCEPT ![connectionKey] = 0]
  /\ isConnecting' = [isc EXCEPT ![connectionKey] = FALSE]
  /\ messageHandlers' = [messageHandlers EXCEPT ![connectionKey] = <<>>]
  /\ timers' = IF ShouldReconnect(code)
               THEN Append(timers, [url |-> sockets[s].url,
                                    room |-> sockets[s].room,
                                    token |-> sockets[s].token,
                                    delay |-> reconnectDelay(code, n),
                                    code |-> code, n |-> n])
               ELSE timers

\* variant: onclose gives up after the first failed reconnect attempt
oncloseGivesUp(s, code, isc) ==
  LET connectionKey == KeyOf(s)
      n == IF sockets[s].opened THEN 1 ELSE sockets[s].attempt + 1 IN
  /\ connections' = [connections EXCEPT ![connectionKey] = 0]
  /\ isConnecting' = [isc EXCEPT ![connectionKey] = FALSE]
  /\ UNCHANGED messageHandlers
  /\ timers' = IF ShouldReconnect(code) /\ n <= 1
               THEN Append(timers, [url |-> sockets[s].url,
                                    room |-> sockets[s].room,
                                    token |-> sockets[s].token,
                                    delay |-> reconnectDelay(code, n),
                                    code |-> code, n |-> n])
               ELSE timers

\* websocket.js:38-49  ws.onclose, run with the flag map isc left by an
\* error event fired just before it (isConnecting itself when there was none)
onclose(s, code, isc) ==
  LET connectionKey == KeyOf(s)
      n == IF sockets[s].opened THEN 1 ELSE sockets[s].attempt + 1 IN
  /\ connections' = [connections EXCEPT ![connectionKey] = 0]
  /\ isConnecting' = [isc EXCEPT ![connectionKey] = FALSE]
  /\ UNCHANGED messageHandlers
  /\ timers' = IF ShouldReconnect(code)
               THEN Append(timers, [url |-> sockets[s].url,
                                    room |-> sockets[s].room,
                                    token |-> sockets[s].token,
                                    delay |-> reconnectDelay(code, n),
                                    code |-> code, n |-> n])
               ELSE timers

\* the browser's close event: the socket becomes CLOSED; a close that is
\* not clean (1006) is preceded by an error event in the same task
CloseEvent(s, code) ==
  /\ sockets' = [sockets EXCEPT ![s].readyState = "CLOSED"]
  /\ lastClose' = code
  /\ onclose(s, code, IF code = 1006 THEN onerror(isConnecting, s)
                      ELSE isConnecting)
  /\ UNCHANGED <<credential, desired, frameVars, msgs>>
  /\ UNCHANGED appVars

\* the connection ends without the client asking: the handshake fails
\* (1006) or the server or the network closes an open connection
ServerClose(s, code) ==
  /\ s \in SockIds
  /\ \/ sockets[s].readyState = "CONNECTING" /\ code = 1006
     \/ sockets[s].readyState = "OPEN"
  /\ CloseEvent(s, code)

\* a close the client asked for completes: code 1000 when the connection
\* was established, 1006 when close() was called before it was
ClientClose(s) ==
  /\ s \in SockIds
  /\ sockets[s].readyState = "CLOSING"
  /\ CloseEvent(s, IF sockets[s].opened THEN 1000 ELSE 1006)

\* variant: the reconnect registers the subscription's handler again
reconnectTimerResubscribes ==
  /\ timers # <<>>
  /\ LET t == Head(timers)
         r == connect(sockets, t.url, t.room, t.token, t.n) IN
     /\ Len(r.socks) <= MaxSockets
     /\ connections' = r.conns
     /\ isConnecting' = r.isc
     /\ sockets' = r.socks
     /\ messageHandlers' = [messageHandlers EXCEPT
                              ![ConnectionKey(t.url, t.room)] = Append(@, "h1")]
  /\ timers' = Tail(timers)
  /\ UNCHANGED <<credential, desired, lastClose, frameVars, msgs>>
  /\ UNCHANGED appVars

\* websocket.js:45-47  the setTimeout callback: this.connect(url, room, token);
\* all timers have the same delay, so they run in the order they were armed
reconnectTimer ==
  /\ timers # <<>>
  /\ LET t == Head(timers)
         r == connect(sockets, t.url, t.room, t.token, t.n) IN
     /\ Len(r.socks) <= MaxSockets
     /\ connections' = r.conns
     /\ isConnecting' = r.isc
     /\ sockets' = r.socks
  /\ timers' = Tail(timers)
  /\ UNCHANGED <<messageHandlers, credential, desired, lastClose, frameVars,
                 msgs>>
  /\ UNCHANGED appVars

\* websocket.js:60-69  disconnect(url, room)
disconnect(url, room) ==
  LET connectionKey == ConnectionKey(url, room)
      ws == connections[connectionKey] IN
  /\ IF ws # 0
     THEN /\ sockets' = close(sockets, ws)
          /\ connections' = [connections EXCEPT ![connectionKey] = 0]
          /\ messageHandlers' = [messageHandlers EXCEPT ![connectionKey] = <<>>]
     ELSE UNCHANGED <<sockets, connections, messageHandlers>>
  /\ desired' = [desired EXCEPT ![connectionKey] = FALSE]
  /\ UNCHANGED <<isConnecting, timers, credential, lastClose, frameVars, msgs>>
  /\ UNCHANGED appVars

\* websocket.js:71-80  sendMessage(url, room, message)
sendMessage(url, room) ==
  LET connectionKey == ConnectionKey(url, room)
      ws == connections[connectionKey] IN
  /\ Len(msgs) < MaxMsgs
  /\ msgs' = Append(msgs, [key |-> connectionKey,
                           sock |-> IF ws # 0 /\ sockets[ws].readyState = "OPEN"
                                    THEN ws ELSE 0])
  /\ UNCHANGED <<connVars, messageHandlers, credential, desired, frameVars>>
  /\ UNCHANGED appVars

\* websocket.js:82-88  addMessageHandler(url, room, handler)
addMessageHandler(url, room, handler) ==
  LET connectionKey == ConnectionKey(url, room) IN
  /\ Len(messageHandlers[connectionKey]) < MaxHandlers
  /\ messageHandlers' = [messageHandlers EXCEPT
                           ![connectionKey] = Append(@, handler)]
  /\ UNCHANGED <<connVars, credential, desired, frameVars, msgs>>
  /\ UNCHANGED appVars

\* websocket.js:90-99  removeMessageHandler(url, room, handler)
removeMessageHandler(url, room, handler) ==
  LET connectionKey == ConnectionKey(url, room)
      handlers == messageHandlers[connectionKey]
      index == IndexOf(handlers, handler) IN
  /\ messageHandlers' = IF index > 0
                        THEN [messageHandlers EXCEPT
                                ![connectionKey] = Splice1(handlers, index)]
                        ELSE messageHandlers
  /\ UNCHANGED <<connVars, credential, desired, frameVars, msgs>>
  /\ UNCHANGED appVars

RECURSIVE closeEach(_, _)
closeEach(socks, ids) ==
  IF ids = {} THEN socks
  ELSE LET s == CHOOSE x \in ids : TRUE IN
       closeEach(close(socks, s), ids \ {s})

\* websocket.js:148-155  disconnectAll()
disconnectAll ==
  /\ sockets' = closeEach(sockets, {connections[k] : k \in Keys} \ {0})
  /\ connections' = [k \in Keys |-> 0]
  /\ messageHandlers' = [k \in Keys |-> <<>>]
  /\ isConnecting' = [k \in Keys |-> FALSE]
  /\ desired' = [k \in Keys |-> FALSE]
  /\ UNCHANGED <<timers, credential, lastClose, frameVars, msgs>>
  /\ UNCHANGED appVars

(* --------------------------- specifications --------------------------- *)
\* the connection life cycle: callers connecting and disconnecting rooms,
\* socket events with the given close codes, reconnect timers
Lifecycle(rooms, codes) ==
  \/ \E u \in Urls, r \in rooms : Connect(u, r)
  \/ \E s \in SockIds : onopen(s)
  \/ \E s \in SockIds, code \in codes : ServerClose(s, code)
  \/ \E s \in SockIds : ClientClose(s)
  \/ reconnectTimer
  \/ \E u \in Urls, r \in rooms : disconnect(u, r)
  \/ disconnectAll

\* every operation of the service with every input
Next ==
  \/ Lifecycle(Rooms, Codes)
  \/ RefreshCredential
  \/ \E s \in SockIds, valid \in BOOLEAN : onmessage(s, valid)
  \/ \E u \in Urls, r \in Rooms : sendMessage(u, r)
  \/ \E u \in Urls, r \in Rooms, h \in Handlers : addMessageHandler(u, r, h)
  \/ \E u \in Urls, r \in Rooms, h \in Handlers : removeMessageHandler(u, r, h)

Spec == Init /\ [][Next]_vars

\* connections only: both rooms; clean, lost, server-error and rate-limit
\* closes
NextConn == Lifecycle(Rooms, BasicCodes \cup {4429})

SpecConn == Init /\ [][NextConn]_vars

\* one room with every close code, and the auth state refreshing its token
NextAuth ==
  \/ Lifecycle({"general"}, Codes)
  \/ RefreshCredential

SpecAuth == Init /\ [][NextAuth]_vars

\* sending while one room connects, drops and reconnects
NextSend ==
  \/ Lifecycle({"general"}, BasicCodes)
  \/ \E u \in Urls, r \in Rooms : sendMessage(u, r)

SpecSend == Init /\ [][NextSend]_vars

\* Chat.js:41-75  the body of the Chat component's effect, run once with a
\* room and a token: loadChatHistory() sends its request,
\* connectToChat(room, token), then
\* addMessageHandler('/ws/chat/', room, handleMessage), in one task
Subscribe ==
  LET r == connect(sockets, "/ws/chat/", "general", credential, 0)
      key == ConnectionKey("/ws/chat/", "general") IN
  /\ sockets = <<>>
  /\ Len(messageHandlers[key]) < MaxHandlers
  /\ connections' = r.conns
  /\ isConnecting' = r.isc
  /\ sockets' = r.socks
  /\ desired' = [desired EXCEPT ![key] = TRUE]
  /\ messageHandlers' = [messageHandlers EXCEPT ![key] = Append(@, "h1")]
  /\ chat' = [chat EXCEPT !.mounted = TRUE]
  /\ mounts' = [mounts EXCEPT !.effect["Chat"] = "ran", !.request = "inflight"]
  /\ UNCHANGED <<timers, credential, lastClose, frameVars, msgs>>
  /\ UNCHANGED <<timeouts, now, chatView, chatHist>>
  /\ UNCHANGED <<tasksVars, email, serverVars, router, auth, storage, http>>

\* a forced disconnect: the connection ends with a code other than 1000,
\* while the run can still create the socket of the reconnect
ForcedDisconnect(s, code) ==
  /\ code # 1000
  /\ Len(sockets) < MaxSockets
  /\ ServerClose(s, code)

\* the reconnect scenario: one subscription, never disconnected by the
\* caller, whose connection is dropped and re-established
NextReconnect ==
  \/ Subscribe
  \/ \E s \in SockIds : onopen(s)
  \/ \E s \in SockIds, valid \in BOOLEAN : onmessage(s, valid)
  \/ \E s \in SockIds, code \in Codes : ForcedDisconnect(s, code)
  \/ reconnectTimer

SpecReconnect == Init /\ [][NextReconnect]_vars

\* the reconnect scenario (clean, lost and server-error closes) with callers
\* registering and removing handlers at any time: both handlers for the
\* subscribed room, one for the other room
NextDispatch ==
  \/ Subscribe
  \/ \E s \in SockIds : onopen(s)
  \/ \E s \in SockIds, valid \in BOOLEAN : onmessage(s, valid)
  \/ \E s \in SockIds, code \in BasicCodes : ForcedDisconnect(s, code)
  \/ reconnectTimer
  \/ \E u \in Urls, h \in Handlers : addMessageHandler(u, "general", h)
  \/ \E u \in Urls, h \in Handlers : removeMessageHandler(u, "general", h)
  \/ \E u \in Urls : addMessageHandler(u, "standup", "h2")
  \/ \E u \in Urls : removeMessageHandler(u, "standup", "h2")

SpecDispatch == Init /\ [][NextDispatch]_vars

\* the same scenario with the scheduling the browser and the claim's premise
\* give: an armed timer fires, and the server eventually accepts an attempt
SpecLive ==
  /\ Init
  /\ [][NextReconnect]_vars
  /\ WF_vars(Subscribe)
  /\ WF_vars(reconnectTimer)
  /\ SF_vars(\E s \in SockIds : onopen(s))

(* ------------------ handlers that change the list -------------------- *)
\* what each registered handler does when it is called: it may remove a
\* handler of the key (itself or another one) through removeMessageHandler,
\* and it returns or throws
Behaviours == [Handlers -> [removes : Handlers \cup {"none"}, throws : BOOLEAN]]

\* websocket.js:92-98  removeMessageHandler on the array of the key
removeFrom(handlers, handler) ==
  LET index == IndexOf(handlers, handler) IN
  IF index > 0 THEN Splice1(handlers, index) ELSE handlers

\* websocket.js:103-109  handlers.forEach over the array that
\* removeMessageHandler splices: forEach visits the indices below the
\* length the array had when it started and skips an index the array no
\* longer has; an exception of a handler is caught and logged. The result is
\* the sequence of calls made and the array left
RECURSIVE forEach(_, _, _, _, _)
forEach(handlers, behaviour, i, len, made) ==
  IF i > len THEN [made |-> made, handlers |-> handlers]
  ELSE IF i > Len(handlers) THEN forEach(handlers, behaviour, i + 1, len, made)
  ELSE LET handler == handlers[i]
           left == IF behaviour[handler].removes = "none" THEN handlers
                   ELSE removeFrom(handlers, behaviour[handler].removes) IN
       forEach(left, behaviour, i + 1, len, Append(made, handler))

\* websocket.js:29-36, 101-110  ws.onmessage and handleMessage with handlers
\* that behave as given
onmessageHandlers(s, valid, behaviour) ==
  LET parsed == JSONParse([body |-> "frame", valid |-> valid])
      handlers == messageHandlers[KeyOf(s)]
      r == forEach(handlers, behaviour, 1, Len(handlers), <<>>) IN
  /\ s \in SockIds
  /\ sockets[s].readyState = "OPEN"
  /\ frames < MaxFrames
  /\ frames' = frames + 1
  /\ lastFrame' = [sock |-> s, valid |-> valid]
  /\ calls' = IF parsed.ok THEN r.made ELSE <<>>
  /\ messageHandlers' = IF parsed.ok
                        THEN [messageHandlers EXCEPT ![KeyOf(s)] = r.handlers]
                        ELSE messageHandlers
  /\ UNCHANGED <<connVars, credential, desired, msgs>>
  /\ UNCHANGED appVars

\* one subscription whose connection drops and is re-established, callers
\* registering and removing handlers, and handlers that remove handlers or
\* throw while a frame is dispatched
NextHandlers ==
  \/ Subscribe
  \/ \E s \in SockIds : onopen(s)
  \/ \E s \in SockIds, valid \in BOOLEAN, behaviour \in Behaviours :
       onmessageHandlers(s, valid, behaviour)
  \/ \E s \in SockIds : ForcedDisconnect(s, 1006)
  \/ reconnectTimer
  \/ \E u \in Urls, h \in Handlers : addMessageHandler(u, "general", h)
  \/ \E u \in Urls, h \in Handlers : removeMessageHandler(u, "general", h)

SpecHandlers == Init /\ [][NextHandlers]_vars

(* ------------------------- the Chat component ------------------------- *)
\* what can be typed into the chat input: a blank and a letter
Chars == {" ", "a"}

Texts == UNION {[1..n -> Chars] : n \in 0..MaxText}

\* Chat.js:125-127  setTimeout(..., 2000)
TypingTimeoutMs == 2000

\* the room of the mounted Chat component (its room prop)
ChatRoom == "general"

RECURSIVE trimStart(_)
trimStart(text) ==
  IF text # <<>> /\ Head(text) = " " THEN trimStart(Tail(text)) ELSE text

RECURSIVE trimEnd(_)
trimEnd(text) ==
  IF text # <<>> /\ text[Len(text)] = " "
  THEN trimEnd(SubSeq(text, 1, Len(text) - 1)) ELSE text

\* variant: nothing is removed
trimNothing(text) == text

\* String.prototype.trim(), as used in Chat.js:101 and 103
trim(text) == trimEnd(trimStart(text))

\* websocket.js:71-80  sendMessage(url, room, message) called from another
\* handler: the log of sendMessage calls after the call. The message goes to
\* the key's recorded socket when that is OPEN, else the console.error
\* branch runs (sock 0)
sendTo(ms, url, room, message) ==
  LET connectionKey == ConnectionKey(url, room)
      ws == connections[connectionKey] IN
  Append(ms, [key |-> connectionKey,
              sock |-> IF ws # 0 /\ sockets[ws].readyState = "OPEN"
                       THEN ws ELSE 0,
              message |-> message])

\* websocket.js:125-130  sendChatMessage(room, message)
sendChatMessage(ms, room, message) ==
  sendTo(ms, "/ws/chat/", room, [type |-> "chat_message", message |-> message])

\* websocket.js:132-137  sendTypingIndicator(room, isTyping)
sendTypingIndicator(ms, room, isTyping) ==
  sendTo(ms, "/ws/chat/", room, [type |-> "typing", is_typing |-> isTyping])

\* variant: a pending timeout is never cancelled
clearTimeoutNoop(pending, id) == pending

\* clearTimeout(id): the pending timeouts without the one of that id; a
\* timeout that already ran, and id 0 (null), cancel nothing
clearTimeout(pending, id) == {t \in pending : t.id # id}

\* Chat.js:113-128  handleTyping(e), with e.target.value = value. A run ends
\* with room for the frame of the timeout armed here, and with the time for
\* it to come due
handleTyping(value) ==
  LET id == timeouts.armed + 1 IN
  /\ chat.mounted
  /\ Len(msgs) + 2 <= MaxChatSends
  /\ now + TypingTimeoutMs <= MaxTime * 1000
  /\ msgs' = sendTypingIndicator(msgs, ChatRoom, TRUE)
  /\ timeouts' = [armed |-> id,
                  pending |-> clearTimeout(timeouts.pending, chat.typingTimeoutRef)
                              \cup {[id |-> id, due |-> now + TypingTimeoutMs]}]
  /\ chat' = [chat EXCEPT !.newMessage = value, !.typingTimeoutRef = id]
  /\ chatHist' = [chatHist EXCEPT !.lastKey = now]
  /\ UNCHANGED <<connVars, messageHandlers, credential, desired, frameVars, now,
                 chatView>>
  /\ UNCHANGED <<tasksVars, restVars>>

\* Chat.js:125-127  the callback of the typing timeout; a timeout never runs
\* before it is due
typingTimeout(id) ==
  /\ \E t \in timeouts.pending : t.id = id /\ now >= t.due
  /\ Len(msgs) < MaxChatSends
  /\ msgs' = sendTypingIndicator(msgs, ChatRoom, FALSE)
  /\ timeouts' = [timeouts EXCEPT !.pending = {t \in @ : t.id # id}]
  /\ UNCHANGED <<connVars, messageHandlers, credential, desired, frameVars,
                 chat, now, chatView, chatHist>>
  /\ UNCHANGED <<tasksVars, restVars>>

\* Chat.js:99-111  handleSendMessage(e)
handleSendMessage ==
  /\ chat.mounted
  /\ IF trim(chat.newMessage) = <<>>
     THEN /\ chatHist' = [chatHist EXCEPT !.rejectedAt = Len(msgs)]
          /\ UNCHANGED <<msgs, chat, timeouts>>
     ELSE /\ Len(msgs) + 2 <= MaxChatSends
          /\ msgs' = sendTypingIndicator(
                       sendChatMessage(msgs, ChatRoom, trim(chat.newMessage)),
                       ChatRoom, FALSE)
          /\ chat' = [chat EXCEPT !.newMessage = <<>>]
          /\ timeouts' = [timeouts EXCEPT
                            !.pending = clearTimeout(@, chat.typingTimeoutRef)]
          /\ UNCHANGED chatHist
  /\ UNCHANGED <<connVars, messageHandlers, credential, desired, frameVars, now,
                 chatView>>
  /\ UNCHANGED <<tasksVars, restVars>>

\* Chat.js:77-80  the effect's cleanup, run when the component unmounts:
\* removeMessageHandler('/ws/chat/', room, handleMessage), then
\* disconnect('/ws/chat/', room)
Unmount ==
  LET connectionKey == ConnectionKey("/ws/chat/", ChatRoom)
      handlers == messageHandlers[connectionKey]
      index == IndexOf(handlers, "h1")
      ws == connections[connectionKey] IN
  /\ chat.mounted
  /\ chat' = [chat EXCEPT !.mounted = FALSE]
  /\ IF ws # 0
     THEN /\ sockets' = close(sockets, ws)
          /\ connections' = [connections EXCEPT ![connectionKey] = 0]
          /\ messageHandlers' = [messageHandlers EXCEPT ![connectionKey] = <<>>]
     ELSE /\ messageHandlers' =
               IF index > 0
               THEN [messageHandlers EXCEPT ![connectionKey] = Splice1(handlers, index)]
               ELSE messageHandlers
          /\ UNCHANGED <<sockets, connections>>
  /\ desired' = [desired EXCEPT ![connectionKey] = FALSE]
  /\ UNCHANGED <<isConnecting, timers, credential, lastClose, frameVars, msgs,
                 timeouts, now, chatView, chatHist>>
  /\ UNCHANGED <<tasksVars, restVars>>

\* the values JSON.parse can return for a frame, as far as the handler of
\* Chat.js:49-73 tells them apart: a value that is not an object, or an
\* object with its type, user, is_typing ("true" and "false" for the
\* booleans, "undefined" when absent), online_users and message
NotAnObject ==
  [isObject |-> FALSE, type |-> "undefined", user |-> "", is_typing |-> "undefined",
   online_users |-> [isArray |-> FALSE, items |-> <<>>], message |-> "undefined"]

JsonObject(type, user, is_typing, online_users, message) ==
  [isObject |-> TRUE, type |-> type, user |-> user, is_typing |-> is_typing,
   online_users |-> online_users, message |-> message]

NoArray == [isArray |-> FALSE, items |-> <<>>]

ChatData ==
  { NotAnObject,
    JsonObject("chat_message", "bob", "undefined", NoArray, "hi"),
    JsonObject("user_joined", "bob", "undefined",
               [isArray |-> TRUE, items |-> <<"ann", "bob">>], "undefined"),
    JsonObject("user_left", "bob", "undefined", NoArray, "undefined"),
    JsonObject("typing", "bob", "true", NoArray, "undefined"),
    JsonObject("typing", "bob", "false", NoArray, "undefined"),
    JsonObject("typing", "bob", "yes", NoArray, "undefined"),
    JsonObject("task_update", "bob", "undefined", NoArray, "undefined"),
    JsonObject("reaction", "bob", "true",
               [isArray |-> TRUE, items |-> <<"ann">>], "hi"),
    JsonObject("undefined", "", "undefined", NoArray, "undefined") }

\* Chat.js:91-97  handleTypingIndicator(username, isTyping)
handleTypingIndicator(view, username, isTyping) ==
  LET others == SelectSeq(view.typingUsers, LAMBDA u : u # username) IN
  [view EXCEPT !.typingUsers = IF isTyping THEN Append(others, username)
                               ELSE others]

\* variant: a frame of an unknown type is shown as a chat message
ChatHandleMessageShowsUnknown(view, data) ==
  IF ~data.isObject THEN view
  ELSE CASE data.type \in {"user_joined", "user_left"} ->
              [view EXCEPT !.onlineUsers = IF data.online_users.isArray
                                           THEN data.online_users.items ELSE <<>>]
         [] data.type = "typing" ->
              IF data.user # "" /\ data.is_typing \in {"true", "false"}
              THEN handleTypingIndicator(view, data.user, data.is_typing = "true")
              ELSE view
         [] OTHER -> [view EXCEPT !.messages = <<data>> \o @]

\* Chat.js:49-73  handleMessage(data), the handler the component registers:
\* the component's view after the call
ChatHandleMessage(view, data) ==
  IF ~data.isObject THEN view
  ELSE CASE data.type = "chat_message" ->
              [view EXCEPT !.messages = <<data>> \o @]
         [] data.type \in {"user_joined", "user_left"} ->
              [view EXCEPT !.onlineUsers = IF data.online_users.isArray
                                           THEN data.online_users.items ELSE <<>>]
         [] data.type = "typing" ->
              IF data.user # "" /\ data.is_typing \in {"true", "false"}
              THEN handleTypingIndicator(view, data.user, data.is_typing = "true")
              ELSE view
         [] OTHER -> view

\* the view after the handlers called for one frame have run: "h1" is the
\* Chat component's handler, the others belong to other components
RECURSIVE runHandlers(_, _, _)
runHandlers(made, view, data) ==
  IF made = <<>> THEN view
  ELSE runHandlers(Tail(made),
                   IF Head(made) = "h1" THEN ChatHandleMessage(view, data)
                   ELSE view,
                   data)

\* the types Chat.js:55-69 has a case for
ChatTypes == {"chat_message", "user_joined", "user_left", "typing"}

\* websocket.js:29-36  ws.onmessage for a frame of the chat socket, with the
\* handlers of Chat.js:49-73 it runs
onmessageChat(s, text) ==
  LET parsed == JSONParse(text)
      made == IF parsed.ok THEN handleMessage(KeyOf(s), parsed.data) ELSE <<>> IN
  /\ s \in SockIds
  /\ sockets[s].readyState = "OPEN"
  /\ frames < MaxFrames
  /\ frames' = frames + 1
  /\ lastFrame' = [sock |-> s, valid |-> text.valid, data |-> text.body]
  /\ calls' = made
  /\ chatView' = IF parsed.ok THEN runHandlers(made, chatView, parsed.data)
                 ELSE chatView
  /\ chatHist' = IF parsed.ok /\ parsed.data.isObject
                    /\ parsed.data.type \notin ChatTypes
                 THEN [chatHist EXCEPT !.unknownAt = frames]
                 ELSE chatHist
  /\ UNCHANGED <<connVars, messageHandlers, credential, desired, msgs,
                 chat, timeouts, now>>
  /\ UNCHANGED <<tasksVars, restVars>>

\* the messages the history of the room can hold: one sent before the
\* component mounted, and the one the component also receives live
OldMessage == JsonObject("chat_message", "ann", "undefined", NoArray, "old")

LiveMessage == JsonObject("chat_message", "bob", "undefined", NoArray, "hi")

\* the outcomes of api.get(`/collaboration/messages/?room=${room}`): a
\* rejection, or a response whose data is an array, an object with
\* results, or an object without
HistoryResponses ==
  {[ok |-> FALSE, shape |-> "none", items |-> <<>>]}
  \cup {[ok |-> TRUE, shape |-> sh, items |-> it] :
          sh \in {"array", "results", "other"},
          it \in {<<>>, <<OldMessage>>, <<OldMessage, LiveMessage>>}}

\* Array.prototype.reverse
RECURSIVE reverse(_)
reverse(items) ==
  IF items = <<>> THEN <<>> ELSE Append(reverse(Tail(items)), Head(items))

\* Chat.js:24-37  loadChatHistory after its await: the messages state after
\* setMessages(messages.reverse()), or setMessages([]) in the catch
loadChatHistory(messages, response) ==
  IF response.ok
  THEN reverse(IF response.shape \in {"array", "results"}
               THEN response.items ELSE <<>>)
  ELSE <<>>

\* Chat.js:26-36  the history request settles and loadChatHistory resumes
loadChatHistoryResumes(response) ==
  /\ mounts.request = "inflight"
  /\ chatView' = [chatView EXCEPT
                    !.messages = loadChatHistory(chatView.messages, response)]
  /\ mounts' = [mounts EXCEPT !.request = "done", !.loading = FALSE]
  /\ UNCHANGED <<serviceVars, chat, timeouts, now, chatHist>>
  /\ UNCHANGED <<tasksVars, email, serverVars, router, auth, storage, http>>

\* a second passes
Tick ==
  /\ now < MaxTime * 1000
  /\ now' = now + 1000
  /\ UNCHANGED <<serviceVars, chat, timeouts, chatView, chatHist>>
  /\ UNCHANGED <<tasksVars, restVars>>

\* a user typing and submitting within the two seconds of the typing
\* timeout, while the room's connection opens, drops and is re-established
NextChatSend ==
  \/ Subscribe
  \/ \E s \in SockIds : onopen(s)
  \/ \E s \in SockIds : ForcedDisconnect(s, 1006)
  \/ reconnectTimer
  \/ \E value \in Texts : handleTyping(value)
  \/ handleSendMessage

SpecChatSend == Init /\ [][NextChatSend]_vars

\* a user typing "a", pausing and submitting while time passes, the room's
\* connection drops and is re-established, and the component unmounts
NextTyping ==
  \/ Subscribe
  \/ \E s \in SockIds : onopen(s)
  \/ \E s \in SockIds : ForcedDisconnect(s, 1006)
  \/ \E s \in SockIds : ClientClose(s)
  \/ reconnectTimer
  \/ handleTyping(<<"a">>)
  \/ handleSendMessage
  \/ \E id \in 1..timeouts.armed : typingTimeout(id)
  \/ Tick
  \/ Unmount

SpecTyping == Init /\ [][NextTyping]_vars

\* the same with the scheduling the browser gives: time passes, a timeout
\* that is due runs, an armed reconnect timer fires, and the server
\* eventually accepts a connection attempt
SpecTypingLive ==
  /\ Init
  /\ [][NextTyping]_vars
  /\ WF_vars(Tick)
  /\ WF_vars(\E id \in 1..timeouts.armed : typingTimeout(id))
  /\ WF_vars(reconnectTimer)
  /\ SF_vars(\E s \in SockIds : onopen(s))

(* --------------------------- the Tasks page --------------------------- *)
\* the statuses a task is moved to
NewStatuses == {"in_progress", "done"}

\* the two definitions of handleStatusChange in Tasks.js
Definitions == {"first", "second"}

\* Tasks.js:257-283  the effect of the Tasks page: connectToProject(
\* selectedProject, token), then addMessageHandler('/ws/project/',
\* selectedProject, handleMessage), in one task
SubscribeProject ==
  LET r == connect(sockets, "/ws/project/", SelectedProject, credential, 0) IN
  /\ sockets = <<>>
  /\ Len(messageHandlers[ProjectKey]) < MaxHandlers
  /\ connections' = r.conns
  /\ isConnecting' = r.isc
  /\ sockets' = r.socks
  /\ desired' = [desired EXCEPT ![ProjectKey] = TRUE]
  /\ messageHandlers' = [messageHandlers EXCEPT ![ProjectKey] = Append(@, "tasks")]
  /\ mounts' = [mounts EXCEPT !.effect["Tasks"] = "ran"]
  /\ UNCHANGED <<timers, credential, lastClose, frameVars, msgs>>
  /\ UNCHANGED <<chatVars, tasksVars>>
  /\ UNCHANGED <<email, serverVars, router, auth, storage, http>>

\* websocket.js:139-146  sendTaskUpdate(projectId, taskId, updates); the
\* timestamp of line 144 is left out
sendTaskUpdate(ms, projectId, taskId, updates) ==
  sendTo(ms, "/ws/project/", projectId,
         [type |-> "task_update", task_id |-> taskId, updates |-> updates])

\* Tasks.js:326-334 and 879-881  handleStatusChange(taskId, newStatus) up to
\* its await: dispatch(updateTask({id, status})) sends the PATCH request
handleStatusChange(definition, newStatus) ==
  /\ tasksPage.started < MaxUpdates
  /\ tasksPage' = [tasksPage EXCEPT
                     !.started = @ + 1,
                     !.pending = @ \cup {[id |-> tasksPage.started + 1,
                                          definition |-> definition,
                                          status |-> newStatus,
                                          result |-> "pending"]}]
  /\ UNCHANGED <<serviceVars, chatVars, taskStatus>>
  /\ UNCHANGED restVars

\* taskSlice.js:41-52  the PATCH request of updateTask is answered: the REST
\* API commits the new status and the thunk is fulfilled, or the request
\* fails and the thunk is rejected with rejectWithValue
updateTask(req, ok) ==
  /\ req \in tasksPage.pending
  /\ req.result = "pending"
  /\ tasksPage' = [tasksPage EXCEPT
                     !.pending = (@ \ {req}) \cup
                       {[req EXCEPT !.result = IF ok THEN "fulfilled"
                                               ELSE "rejected"]}]
  /\ taskStatus' = IF ok THEN req.status ELSE taskStatus
  /\ UNCHANGED <<serviceVars, chatVars>>
  /\ UNCHANGED restVars

\* Tasks.js:336 and 881-884  whether handleStatusChange goes on to
\* sendTaskUpdate once the dispatch has settled: the first definition tests
\* updateTask.fulfilled.match(result); the second only awaits the dispatch,
\* which resolves for a rejected thunk as well
shouldNotify(definition, result) ==
  IF definition = "first" THEN result = "fulfilled" ELSE TRUE

\* Tasks.js:336-348 and 883-889  handleStatusChange after its await
handleStatusChangeResumes(req) ==
  /\ req \in tasksPage.pending
  /\ req.result # "pending"
  /\ tasksPage' = [tasksPage EXCEPT !.pending = @ \ {req}]
  /\ msgs' = IF shouldNotify(req.definition, req.result)
             THEN sendTaskUpdate(msgs, SelectedProject, 1,
                                 [status |-> req.status, updated_by |-> "ann"])
             ELSE msgs
  /\ UNCHANGED <<connVars, messageHandlers, credential, desired, frameVars,
                 chatVars, taskStatus>>
  /\ UNCHANGED restVars

\* the values JSON.parse can return for a frame of the project socket, as
\* far as the handler of Tasks.js:276-281 tells them apart
ProjectData ==
  { NotAnObject,
    JsonObject("task_update", "ann", "undefined", NoArray, "undefined"),
    JsonObject("task_updated", "ann", "undefined", NoArray, "undefined"),
    JsonObject("chat_message", "ann", "undefined", NoArray, "hi") }

\* Tasks.js:276-281  handleMessage(data) of the Tasks page: the number of
\* fetchTasks dispatched after the call
TasksHandleMessage(fetches, data) ==
  IF data.isObject /\ data.type = "task_updated" THEN fetches + 1 ELSE fetches

\* websocket.js:29-36  ws.onmessage for a frame of the project socket, with
\* the handler of Tasks.js:276-281 it runs
onmessageProject(s, text) ==
  LET parsed == JSONParse(text)
      made == IF parsed.ok THEN handleMessage(KeyOf(s), parsed.data) ELSE <<>> IN
  /\ s \in SockIds
  /\ sockets[s].readyState = "OPEN"
  /\ frames < MaxFrames
  /\ frames' = frames + 1
  /\ lastFrame' = [sock |-> s, valid |-> text.valid, data |-> text.body]
  /\ calls' = made
  /\ tasksPage' = IF parsed.ok /\ Count("tasks", made) > 0
                  THEN [tasksPage EXCEPT
                          !.fetches = TasksHandleMessage(@, parsed.data)]
                  ELSE tasksPage
  /\ UNCHANGED <<connVars, messageHandlers, credential, desired, msgs,
                 chatVars, taskStatus>>
  /\ UNCHANGED restVars

\* the Tasks page with its project socket: status changes through either
\* definition of handleStatusChange, the REST API accepting or refusing
\* them, the connection dropping and being re-established
NextTaskUpdates ==
  \/ SubscribeProject
  \/ \E s \in SockIds : onopen(s)
  \/ \E s \in SockIds : ForcedDisconnect(s, 1006)
  \/ reconnectTimer
  \/ \E d \in Definitions, st \in NewStatuses : handleStatusChange(d, st)
  \/ \E req \in tasksPage.pending, ok \in BOOLEAN : updateTask(req, ok)
  \/ \E req \in tasksPage.pending : handleStatusChangeResumes(req)

SpecTaskUpdates == Init /\ [][NextTaskUpdates]_vars

\* frames of every kind arriving on the project socket of the Tasks page,
\* the connection dropping and being re-established
NextTaskFrames ==
  \/ SubscribeProject
  \/ \E s \in SockIds : onopen(s)
  \/ \E s \in SockIds : ForcedDisconnect(s, 1006)
  \/ reconnectTimer
  \/ \E s \in SockIds, valid \in BOOLEAN, data \in ProjectData :
       onmessageProject(s, [body |-> data, valid |-> valid])

SpecTaskFrames == Init /\ [][NextTaskFrames]_vars

(* --------------------------- the EmailService ------------------------- *)
\* JavaScript truthiness of a flag value
Truthy(v) == v = "true"

\* v || false
OrFalse(v) == IF Truthy(v) THEN v ELSE "false"

\* variant: a type without a case of its own is never enabled
flagOfNoDefault(notificationType) ==
  CASE notificationType = "task_assigned"     -> "task_assignments"
    [] notificationType = "task_updated"      -> "task_updates"
    [] notificationType = "project_updated"   -> "project_updates"
    [] notificationType = "deadline_reminder" -> "deadline_reminders"
    [] notificationType = "mention"           -> "mentions"
    [] notificationType = "comment_added"     -> "comments"
    [] OTHER                                  -> "enabled_never"

\* part_010:177-192  the switch on notificationType: the flag each case reads
flagOf(notificationType) ==
  CASE notificationType = "task_assigned"     -> "task_assignments"
    [] notificationType = "task_updated"      -> "task_updates"
    [] notificationType = "project_updated"   -> "project_updates"
    [] notificationType = "deadline_reminder" -> "deadline_reminders"
    [] notificationType = "mention"           -> "mentions"
    [] notificationType = "comment_added"     -> "comments"
    [] OTHER                                  -> "other"

\* a flag of the block, undefined when the block has no such property
Get(block, flag) == IF flag \in DOMAIN block THEN block[flag] ELSE "undefined"

\* part_010:164-193  isEmailNotificationEnabled(userPreferences, notificationType)
isEmailNotificationEnabled(userPreferences, notificationType) ==
  IF userPreferences.isNull \/ ~userPreferences.hasBlock THEN "false"
  ELSE LET emailSettings == userPreferences.block IN
       IF ~Truthy(emailSettings.enabled) THEN "false"
       ELSE OrFalse(Get(emailSettings, flagOf(notificationType)))

\* the preferences and the type of one call
InitEmail ==
  /\ InitApp
  /\ NoSession
  /\ email \in [prefs : Preferences, type : NotificationTypes, result : {"none"}]

\* the call is made
CallIsEmailNotificationEnabled ==
  /\ email.result = "none"
  /\ email' = [email EXCEPT
                 !.result = isEmailNotificationEnabled(email.prefs, email.type)]
  /\ UNCHANGED <<serviceVars, chatVars, tasksVars, serverVars, router, pageVars>>

SpecEmail == InitEmail /\ [][CallIsEmailNotificationEnabled]_vars

(* ------------------- the auth state and the REST client --------------- *)
\* whether a token value counts as true in a condition
IsTruthy(value) == value \notin {"null", "undefined", ""}

\* the auth state and localStorage, which the reducers of authSlice.js change
\* together
Session == [auth |-> auth, storage |-> storage]

\* authSlice.js:37-43  logout
logout(st) ==
  [auth |-> [st.auth EXCEPT !.user = "null", !.access = "null", !.refresh = "null"],
   storage |-> removeItem(removeItem(st.storage, "access"), "refresh")]

\* variant: the new access token is not persisted
updateAccessTokenUnpersisted(st, payload) ==
  [auth |-> [st.auth EXCEPT !.access = payload], storage |-> st.storage]

\* authSlice.js:44-47  updateAccessToken
updateAccessToken(st, payload) ==
  [auth |-> [st.auth EXCEPT !.access = payload],
   storage |-> setItem(st.storage, "access", payload)]

\* authSlice.js:56-63  login.fulfilled
loginFulfilled(st, payload) ==
  [auth |-> [st.auth EXCEPT !.user = payload.user, !.access = payload.access,
                            !.refresh = payload.refresh],
   storage |-> setItem(setItem(st.storage, "access", payload.access),
                       "refresh", payload.refresh)]

\* authSlice.js:81-83  fetchProfile.fulfilled
fetchProfileFulfilled(st, payload) ==
  [auth |-> [st.auth EXCEPT !.user = payload], storage |-> st.storage]

\* PrivateRoute.js:5-9  what the route renders
PrivateRoute == IF IsTruthy(auth.access) THEN "children" ELSE "Navigate"

\* the response data of POST /auth/login/
LoginPayloads == [user : Users, access : AccessTokens, refresh : RefreshTokens]

\* the store is created in a browser that may hold the tokens of an earlier
\* visit
InitStore ==
  /\ InitApp
  /\ storage \in [access : {"null"} \cup AccessTokens,
                  refresh : {"null"} \cup RefreshTokens]
  /\ auth = initialState(storage)
  /\ email = [prefs |-> CHOOSE pr \in Preferences : pr.isNull,
              type |-> "other", result |-> "none"]

\* the reducer's result becomes the state
Reduce(st) ==
  /\ auth' = st.auth
  /\ storage' = st.storage

\* authSlice.js:12-18, 56-63  the login thunk is fulfilled
LoginFulfilled(payload) ==
  /\ Reduce(loginFulfilled(Session, payload))
  /\ UNCHANGED <<serviceVars, chatVars, tasksVars, email, serverVars, router,
                 http, mounts>>

\* part_002 (Layout)  the user logs out: dispatch(logout())
Logout ==
  /\ Reduce(logout(Session))
  /\ UNCHANGED <<serviceVars, chatVars, tasksVars, email, serverVars, router,
                 http, mounts>>

\* authSlice.js:28-31, 81-83  the profile is fetched
FetchProfileFulfilled(payload) ==
  /\ IsTruthy(auth.access)
  /\ Reduce(fetchProfileFulfilled(Session, payload))
  /\ UNCHANGED <<serviceVars, chatVars, tasksVars, email, serverVars, router,
                 http, mounts>>

\* Notifications.js:53-75  the body of the Notifications component's
\* effect: connectToNotifications(user.id, token), then
\* addMessageHandler('/ws/notifications/', user.id, handleMessage); the
\* requests of loadNotifications and loadUnreadCount are left out
SubscribeNotifications ==
  LET r == connect(sockets, "/ws/notifications/", UserId, credential, 0) IN
  /\ sockets = <<>>
  /\ Len(messageHandlers[NotificationsKey]) < MaxHandlers
  /\ connections' = r.conns
  /\ isConnecting' = r.isc
  /\ sockets' = r.socks
  /\ desired' = [desired EXCEPT ![NotificationsKey] = TRUE]
  /\ messageHandlers' = [messageHandlers EXCEPT
                           ![NotificationsKey] = Append(@, "notifications")]
  /\ mounts' = [mounts EXCEPT !.effect["Notifications"] = "ran"]
  /\ UNCHANGED <<timers, credential, lastClose, frameVars, msgs>>
  /\ UNCHANGED <<chatVars, tasksVars>>
  /\ UNCHANGED <<email, serverVars, router, auth, storage, http>>

\* Chat.js:22, Notifications.js:47, Tasks.js:232
\* const { user, token } = useSelector(state => state.auth): a property the
\* state does not have is undefined
Select(state, field) ==
  IF field \in DOMAIN state THEN state[field] ELSE "undefined"

\* Chat.js:22  the token the components pass to the socket service
tokenOf(state) == Select(state, "token")

\* the effect of component c returns at its guard
Skip(c) ==
  /\ mounts' = [mounts EXCEPT !.effect[c] = "skipped"]
  /\ UNCHANGED <<serviceVars, chatVars, tasksVars, email, serverVars, router,
                 auth, storage, http>>

\* Chat.js:39-81  the effect of the Chat component, run after a render in
\* which it has not yet subscribed
ChatEffect ==
  /\ mounts.effect["Chat"] # "ran"
  /\ IF ~IsTruthy(ChatRoom) \/ ~IsTruthy(tokenOf(auth))
     THEN Skip("Chat")
     ELSE Subscribe

\* Tasks.js:257-289  the effect of the Tasks page
TasksEffect ==
  /\ mounts.effect["Tasks"] # "ran"
  /\ IF ~IsTruthy(SelectedProject) \/ ~IsTruthy(Select(auth, "user"))
        \/ ~IsTruthy(tokenOf(auth))
     THEN Skip("Tasks")
     ELSE SubscribeProject

\* Notifications.js:50-80  the effect of the Notifications component
NotificationsEffect ==
  /\ mounts.effect["Notifications"] # "ran"
  /\ IF ~IsTruthy(Select(auth, "user")) \/ ~IsTruthy(tokenOf(auth))
     THEN Skip("Notifications")
     ELSE SubscribeNotifications

\* the statuses a response can have: success, unauthorized, server error
Statuses == {200, 401, 500}

\* api.js:14-21  the request interceptor: the Authorization header of a
\* request that is issued, "none" when the store has no access token
Authorization(state) ==
  IF IsTruthy(state.access) THEN state.access ELSE "none"

\* variant: every 401 is refreshed and retried
shouldRefreshAlways(status, retry) == status = 401

\* api.js:34  error.response?.status === 401 && !originalRequest._retry
shouldRefresh(status, retry) == status = 401 /\ ~retry

\* a component calls api.get / api.post: the request goes out with the
\* header of the request interceptor
Request(r) ==
  /\ http[r].phase = "idle"
  /\ http' = [http EXCEPT ![r].phase = "sent",
                          ![r].sends = <<Authorization(auth)>>]
  /\ UNCHANGED <<serviceVars, chatVars, tasksVars, email, serverVars, router,
                 auth, storage, mounts>>

\* api.js:29-41, 58  the response of request r arrives: a success is passed
\* on; an error runs the interceptor up to its await, which posts the
\* refresh token, or to the Promise.reject of line 58
Respond(r, status) ==
  /\ http[r].phase = "sent"
  /\ http' = [http EXCEPT ![r] =
       IF status = 200 THEN [@ EXCEPT !.phase = "resolved", !.status = status]
       ELSE IF shouldRefresh(status, @.retry)
       THEN IF IsTruthy(auth.refresh)
            THEN [@ EXCEPT !.phase = "refreshing", !.status = status,
                           !.retry = TRUE, !.refreshes = @ + 1]
            ELSE [@ EXCEPT !.phase = "rejected", !.status = status,
                           !.retry = TRUE]
       ELSE [@ EXCEPT !.phase = "rejected", !.status = status]]
  /\ UNCHANGED <<serviceVars, chatVars, tasksVars, email, serverVars, router,
                 auth, storage, mounts>>

\* api.js:42-55  the post to /auth/token/refresh/ settles. On success
\* updateAccessToken is dispatched and the request is issued again through
\* the instance, with the new token; on failure logout is dispatched, the
\* page goes to /login and the error of the request is returned
RefreshRespond(r, ok, access) ==
  /\ http[r].phase = "refreshing"
  /\ IF ok
     THEN /\ Reduce(updateAccessToken(Session, access))
          /\ http' = [http EXCEPT
                        ![r].phase = "sent",
                        ![r].status = 0,
                        ![r].fresh = access,
                        ![r].sends = Append(@,
                           Authorization(updateAccessToken(Session, access).auth))]
     ELSE /\ Reduce(logout(Session))
          /\ http' = [http EXCEPT ![r].phase = "rejected", ![r].logout = TRUE]
  /\ UNCHANGED <<serviceVars, chatVars, tasksVars, email, serverVars, router,
                 mounts>>

\* two requests through the instance while the user logs in and out
NextApi ==
  \/ \E payload \in LoginPayloads : LoginFulfilled(payload)
  \/ Logout
  \/ \E u \in Users : FetchProfileFulfilled(u)
  \/ \E r \in Requests : Request(r)
  \/ \E r \in Requests, status \in Statuses : Respond(r, status)
  \/ \E r \in Requests, ok \in BOOLEAN, access \in AccessTokens :
       RefreshRespond(r, ok, access)

SpecApi == InitStore /\ [][NextApi]_vars

\* the same with the scheduling of the network: a request that was issued
\* settles, with a response or with a network error
SpecApiLive ==
  /\ InitStore
  /\ [][NextApi]_vars
  /\ \A r \in Requests :
       /\ WF_vars(\E status \in Statuses : Respond(r, status))
       /\ WF_vars(\E ok \in BOOLEAN, access \in AccessTokens :
                    RefreshRespond(r, ok, access))

\* the components rendering while the user logs in and out and requests go
\* through the REST client
NextMount ==
  \/ \E payload \in LoginPayloads : LoginFulfilled(payload)
  \/ Logout
  \/ \E u \in Users : FetchProfileFulfilled(u)
  \/ ChatEffect
  \/ TasksEffect
  \/ NotificationsEffect
  \/ \E r \in Requests : Request(r)
  \/ \E r \in Requests, status \in Statuses : Respond(r, status)
  \/ \E r \in Requests, ok \in BOOLEAN, access \in AccessTokens :
       RefreshRespond(r, ok, access)

SpecMount == InitStore /\ [][NextMount]_vars

(* ------------- the server: PresenceTracker and RoomRegistry ----------- *)
\* variant: presence is a boolean, cleared by any detach
presenceDetachBoolean(p, room, user) ==
  [refs   |-> [p.refs EXCEPT ![<<room, user>>] = @ - 1],
   status |-> [p.status EXCEPT ![<<room, user>>] = "offline"]]

\* spec.md 4.3  a connection of (room, user) joins: offline -> online on
\* the first one
presenceJoin(p, room, user) ==
  [refs   |-> [p.refs EXCEPT ![<<room, user>>] = @ + 1],
   status |-> [p.status EXCEPT ![<<room, user>>] =
                 IF p.refs[<<room, user>>] = 0 THEN "online" ELSE @]]

\* spec.md 4.3  a connection of (room, user) detaches: online|typing ->
\* offline when it was the last one
presenceDetach(p, room, user) ==
  [refs   |-> [p.refs EXCEPT ![<<room, user>>] = @ - 1],
   status |-> [p.status EXCEPT ![<<room, user>>] =
                 IF p.refs[<<room, user>>] = 1 THEN "offline" ELSE @]]

\* spec.md 4.3  each transition emits a presence-changed envelope: what the
\* connection's task has to broadcast after presence went from p to q
emitPresence(todo, p, q, room, user) ==
  IF q.status[<<room, user>>] # p.status[<<room, user>>]
  THEN Append(todo, [type |-> "presence", status |-> q.status[<<room, user>>]])
  ELSE todo

\* spec.md 4.5, 4.2  SessionSupervisor accepts connection c for a room:
\* RoomRegistry.join and the PresenceTracker's join
Attach(c, room) ==
  LET q == presenceJoin(presence, room, UserOf(c)) IN
  /\ srvConns[c].state = "connecting"
  /\ presence' = q
  /\ registry' = [registry EXCEPT !.members[room] = @ \cup {c}]
  /\ srvConns' = [srvConns EXCEPT
                    ![c] = [state |-> "active", room |-> room,
                            joinedAt |-> registry.seq[room],
                            todo |-> emitPresence(<<>>, presence, q, room, UserOf(c))]]
  /\ UNCHANGED <<serviceVars, chatVars, tasksVars, email, pageVars, router, inbox>>

\* spec.md 4.1, 4.5  connection c is closed (by the client, or by
\* SessionSupervisor when it is stale): RoomRegistry.leave and the
\* PresenceTracker's detach
Detach(c) ==
  LET room == srvConns[c].room
      q == presenceDetach(presence, room, UserOf(c)) IN
  /\ srvConns[c].state = "active"
  /\ presence' = q
  /\ registry' = [registry EXCEPT !.members[room] = @ \ {c}]
  /\ srvConns' = [srvConns EXCEPT
                    ![c].state = "closed",
                    ![c].todo = emitPresence(@, presence, q, room, UserOf(c))]
  /\ UNCHANGED <<serviceVars, chatVars, tasksVars, email, pageVars, router, inbox>>

\* the broadcasts begun so far
Begun == LET RECURSIVE Sum(_)
             Sum(rooms) == IF rooms = {} THEN 0
                           ELSE LET r == CHOOSE x \in rooms : TRUE IN
                                registry.seq[r] + Sum(rooms \ {r})
         IN Sum(SrvRooms)

\* the envelopes the connections' tasks have still to broadcast
Queued == LET RECURSIVE Sum(_)
              Sum(cs) == IF cs = {} THEN 0
                         ELSE LET c == CHOOSE x \in cs : TRUE IN
                              Len(srvConns[c].todo) + Sum(cs \ {c})
          IN Sum(SrvConns)

\* spec.md 4.3, 4.4  a typing-start frame of connection c: online -> typing
PresenceTyping(c) ==
  LET room == srvConns[c].room
      q == [presence EXCEPT !.status[<<room, UserOf(c)>>] = "typing"] IN
  /\ srvConns[c].state = "active"
  /\ Begun + Queued < MaxBroadcasts
  /\ presence' = q
  /\ srvConns' = [srvConns EXCEPT
                    ![c].todo = emitPresence(@, presence, q, room, UserOf(c))]
  /\ UNCHANGED <<serviceVars, chatVars, tasksVars, email, pageVars, router, registry, inbox>>

\* spec.md 4.3  the silence timeout of a typing user: typing -> online
PresenceTypingExpire(c) ==
  LET room == srvConns[c].room
      q == [presence EXCEPT !.status[<<room, UserOf(c)>>] = "online"] IN
  /\ srvConns[c].state = "active"
  /\ presence.status[<<room, UserOf(c)>>] = "typing"
  /\ Begun + Queued <= MaxBroadcasts
  /\ presence' = q
  /\ srvConns' = [srvConns EXCEPT
                    ![c].todo = emitPresence(@, presence, q, room, UserOf(c))]
  /\ UNCHANGED <<serviceVars, chatVars, tasksVars, email, pageVars, router, registry, inbox>>

\* variant: the router broadcasts whether or not the append succeeded
dispatchUnpersisted(todo, appended, envelope) == Append(todo, envelope)

\* spec.md 4.4  broadcast only on successful append: what the connection's
\* task has to broadcast after HistoryStore.append returned
dispatch(todo, appended, envelope) ==
  IF appended THEN Append(todo, envelope) ELSE todo

\* spec.md 4.4  MessageRouter.handle for a chat_message frame of connection
\* c: the text is validated, HistoryStore.append is called (appended tells
\* whether it succeeded), and only then the message is handed to the
\* broadcast; a rejected or unpersisted message is answered with an error
handleChatMessage(c, text, appended) ==
  LET id == router.handled + 1
      envelope == [type |-> "chat_message", id |-> id] IN
  /\ srvConns[c].state = "active"
  /\ srvConns[c].todo = <<>>
  /\ Begun + Queued < MaxBroadcasts
  /\ router.handled < MaxBroadcasts
  /\ IF trim(text) = <<>>
     THEN /\ router' = [router EXCEPT
                          !.handled = id,
                          !.errors[c] = @ \cup {[id |-> id, error |-> "ValidationError"]}]
          /\ UNCHANGED srvConns
     ELSE /\ router' = [router EXCEPT
                          !.handled = id,
                          !.history = IF appended THEN @ \cup {id} ELSE @,
                          !.errors[c] = IF appended THEN @
                                        ELSE @ \cup {[id |-> id, error |-> "AppendError"]}]
          /\ srvConns' = [srvConns EXCEPT
                            ![c].todo = dispatch(@, appended, envelope)]
  /\ UNCHANGED <<serviceVars, chatVars, tasksVars, email, pageVars, registry,
                 presence, inbox>>

\* spec.md 4.4  MessageRouter has a chat message of connection c to
\* broadcast: a valid message whose append succeeds
Send(c) == handleChatMessage(c, <<"a">>, TRUE)

\* variant: no critical section
roomLockedNever(reg, room) == FALSE

\* spec.md 4.2, 5  the room's broadcast critical section is taken
roomLocked(reg, room) == \E b \in reg.inflight : b.room = room

\* spec.md 4.2  broadcast(roomId, envelope) enters the room's critical
\* section: the sequence number is assigned and the membership is copied
BroadcastBegin(c) ==
  LET room == srvConns[c].room
      n == registry.seq[room] + 1
      envelope == [room |-> room, seq |-> n, by |-> c,
                   body |-> Head(srvConns[c].todo)] IN
  /\ srvConns[c].todo # <<>>
  /\ ~roomLocked(registry, room)
  /\ Begun < MaxBroadcasts
  /\ registry' = [registry EXCEPT
                    !.seq[room] = n,
                    !.log[room] = Append(@, envelope),
                    !.inflight = @ \cup {[room |-> room, seq |-> n,
                                          snapshot |-> registry.members[room]]}]
  /\ srvConns' = [srvConns EXCEPT ![c].todo = Tail(@)]
  /\ UNCHANGED <<serviceVars, chatVars, tasksVars, email, pageVars, router, presence, inbox>>

\* spec.md 4.2  the broadcast hands the envelope to one member of its
\* snapshot; for a connection that has left meanwhile this is a no-op
Deliver(b, m) ==
  /\ b \in registry.inflight
  /\ m \in b.snapshot
  /\ inbox' = IF m \in registry.members[b.room]
              THEN [inbox EXCEPT ![m] = Append(@, [room |-> b.room, seq |-> b.seq])]
              ELSE inbox
  /\ registry' = [registry EXCEPT
                    !.inflight = (@ \ {b}) \cup
                                 {[b EXCEPT !.snapshot = @ \ {m}]}]
  /\ UNCHANGED <<serviceVars, chatVars, tasksVars, email, pageVars, router, srvConns, presence>>

\* spec.md 4.2  the broadcast has gone through its snapshot and leaves the
\* critical section
BroadcastEnd(b) ==
  /\ b \in registry.inflight
  /\ b.snapshot = {}
  /\ registry' = [registry EXCEPT !.inflight = @ \ {b}]
  /\ UNCHANGED <<serviceVars, chatVars, tasksVars, email, pageVars, router, srvConns, presence,
                 inbox>>

\* presence in one room: the three connections join and leave "standup",
\* the users type, and the presence-changed envelopes are broadcast
NextPresence ==
  \/ \E c \in SrvConns : Attach(c, "standup")
  \/ \E c \in SrvConns : Detach(c)
  \/ \E c \in SrvConns : PresenceTyping(c)
  \/ \E c \in SrvConns : PresenceTypingExpire(c)
  \/ \E c \in SrvConns : BroadcastBegin(c)
  \/ \E b \in registry.inflight, m \in SrvConns : Deliver(b, m)
  \/ \E b \in registry.inflight : BroadcastEnd(b)

SpecPresence == Init /\ [][NextPresence]_vars

\* broadcasting: the connections join either room, send chat messages
\* concurrently and leave
NextBroadcast ==
  \/ \E c \in SrvConns, r \in SrvRooms : Attach(c, r)
  \/ \E c \in SrvConns : Detach(c)
  \/ \E c \in SrvConns : Send(c)
  \/ \E c \in SrvConns : BroadcastBegin(c)
  \/ \E b \in registry.inflight, m \in SrvConns : Deliver(b, m)
  \/ \E b \in registry.inflight : BroadcastEnd(b)

SpecBroadcast == Init /\ [][NextBroadcast]_vars

\* routing: the connections join "standup" and one of them leaves, the chat
\* frames of the two others are validated and persisted, with the append succeeding or failing, and
\* broadcast
NextRouter ==
  \/ \E c \in SrvConns : Attach(c, "standup")
  \/ Detach("B")
  \/ \E c \in {"A", "C"}, text \in {<<" ">>, <<"a">>}, appended \in BOOLEAN :
       handleChatMessage(c, text, appended)
  \/ \E c \in SrvConns : BroadcastBegin(c)
  \/ \E b \in registry.inflight, m \in SrvConns : Deliver(b, m)
  \/ \E b \in registry.inflight : BroadcastEnd(b)

SpecRouter == Init /\ [][NextRouter]_vars

\* frames of every kind arriving at a mounted Chat component whose
\* connection drops and is re-established
NextChatFrames ==
  \/ Subscribe
  \/ \E s \in SockIds : onopen(s)
  \/ \E s \in SockIds, valid \in BOOLEAN, data \in ChatData :
       onmessageChat(s, [body |-> data, valid |-> valid])
  \/ \E s \in SockIds : ForcedDisconnect(s, 1006)
  \/ reconnectTimer

SpecChatFrames == Init /\ [][NextChatFrames]_vars

\* the history request of a mounted Chat component settling while frames
\* arrive on its socket
NextHistory ==
  \/ Subscribe
  \/ \E s \in SockIds : onopen(s)
  \/ \E s \in SockIds, valid \in BOOLEAN, data \in ChatData :
       onmessageChat(s, [body |-> data, valid |-> valid])
  \/ \E response \in HistoryResponses : loadChatHistoryResumes(response)
  \/ \E s \in SockIds : ForcedDisconnect(s, 1006)
  \/ reconnectTimer

SpecHistory == Init /\ [][NextHistory]_vars

TypeOK ==
  /\ connections \in [Keys -> 0..MaxSockets]
  /\ isConnecting \in [Keys -> BOOLEAN]
  /\ desired \in [Keys -> BOOLEAN]
  /\ credential \in {"tokA", "tokB"}
  /\ Len(sockets) <= MaxSockets
  /\ frames \in 0..MaxFrames
  /\ Len(msgs) <= MaxMsgs + MaxChatSends
  /\ chat.newMessage \in Texts
  /\ now \in 0..(MaxTime * 1000)
  /\ \A k \in Keys : Len(messageHandlers[k]) <= MaxHandlers

(* ------------------------------ properties ---------------------------- *)
\* socket s fires its close event in this step
Closing(s) ==
  /\ sockets[s].readyState # "CLOSED"
  /\ sockets'[s].readyState = "CLOSED"

\* a reconnect timer runs in this step
TimerRuns == timers # <<>> /\ timers' = Tail(timers)

\* a frame that parses arrives in this step
FrameArrives == frames' = frames + 1 /\ lastFrame'.valid

\* the key has a recorded socket that is OPEN
HasOpen(k) ==
  /\ connections[k] # 0
  /\ sockets[connections[k]].readyState = "OPEN"

\* C1: a close event with a code other than 1000 arms exactly one reconnect
\* timer, for the url, room and token of the closed socket; a close event
\* with code 1000 arms none; no other step arms a timer, and an armed timer
\* is consumed by the one run of its callback.
C1_ReconnectScheduledOnce ==
  [][ /\ \A s \in SockIds :
           Closing(s) =>
             IF lastClose' # 1000
             THEN /\ Len(timers') = Len(timers) + 1
                  /\ SubSeq(timers', 1, Len(timers)) = timers
                  /\ timers'[Len(timers')].url = sockets[s].url
                  /\ timers'[Len(timers')].room = sockets[s].room
                  /\ timers'[Len(timers')].token = sockets[s].token
             ELSE timers' = timers
      /\ (~ \E s \in SockIds : Closing(s)) => (timers' = timers \/ TimerRuns)
    ]_vars

\* C1 witness: a timer armed by a 4401 close is pending while the latest
\* close, a clean one, armed nothing
C1_Witness ==
  /\ lastClose = 1000
  /\ Len(timers) = 1
  /\ timers[1].code = 4401

\* C2: in the reconnect scenario (one handler registered once, forced
\* disconnects each followed by a reconnect) every frame that arrives
\* invokes the handler exactly once, and there is never more than one socket
\* that could deliver it.
C2_ExactlyOnceAcrossReconnects ==
  [][ /\ FrameArrives => calls' = <<"h1">>
      /\ Cardinality({s \in 1..Len(sockets') : sockets'[s].readyState # "CLOSED"}) <= 1
    ]_vars

\* C2 witness: a frame delivered once on the third socket, that is after two
\* forced disconnects and reconnects
C2_Witness ==
  /\ frames = MaxFrames
  /\ lastFrame.valid
  /\ lastFrame.sock >= 3
  /\ calls = <<"h1">>

\* C3: a close with a code other than 1000 and the reconnect timer that
\* follows leave messageHandlers unchanged, and a frame arriving on a socket
\* created by a reconnect invokes exactly the handlers registered for its key.
C3_HandlersSurviveReconnect ==
  [][ /\ (\E s \in SockIds : Closing(s) /\ lastClose' # 1000)
           => messageHandlers' = messageHandlers
      /\ TimerRuns => messageHandlers' = messageHandlers
      /\ (FrameArrives /\ sockets[lastFrame'.sock].attempt >= 1)
           => calls' = messageHandlers[KeyOf(lastFrame'.sock)]
    ]_vars

\* C3 witness: a frame on a socket created by a reconnect reached a handler
C3_Witness ==
  /\ lastFrame.sock # 0
  /\ lastFrame.valid
  /\ sockets[lastFrame.sock].attempt >= 1
  /\ calls # <<>>
  /\ lastClose # 0

\* C4: a socket is created only for a key whose latest request by the caller
\* was connect, never after disconnect or disconnectAll.
C4_DisconnectIsFinal ==
  [][ Len(sockets') > Len(sockets)
        => desired'[ConnectionKey(sockets'[Len(sockets')].url,
                                  sockets'[Len(sockets')].room)]
    ]_vars

\* C5 as claimed: once the key has an open recorded socket, no message
\* submitted for it is left unsent.
C5_QueuedAndFlushed ==
  \A i \in 1..Len(msgs) : ~ (msgs[i].sock = 0 /\ HasOpen(msgs[i].key))

\* C5 as amended: a message is sent only if the key's recorded socket is
\* OPEN at the call, on that socket; otherwise it is discarded, and nothing
\* that happens later (a connection opening included) sends it.
C5_DroppedForGood ==
  [][ /\ \A i \in 1..Len(msgs) : msgs'[i] = msgs[i]
      /\ Len(msgs') > Len(msgs) =>
           /\ Len(msgs') = Len(msgs) + 1
           /\ msgs'[Len(msgs')].sock =
                IF HasOpen(msgs'[Len(msgs')].key)
                THEN connections[msgs'[Len(msgs')].key] ELSE 0
    ]_vars

\* C5 witness: a discarded message whose key has got an open connection since
C5_Witness ==
  \E i \in 1..Len(msgs) :
    /\ msgs[i].sock = 0
    /\ connections[msgs[i].key] # 0
    /\ sockets[connections[msgs[i].key]].opened
    /\ sockets[connections[msgs[i].key]].readyState = "OPEN"

C7_ExponentialBackoff ==
  \A i \in 1..Len(timers) :
    /\ 5 * timers[i].delay >= 4 * NominalBackoff(timers[i].n)
    /\ 5 * timers[i].delay <= 6 * NominalBackoff(timers[i].n)

\* C7 as amended: every reconnect timer has the delay 3000 ms, whatever the
\* number n of the consecutive attempt, which is below the 30 s cap.
C7_FixedDelay ==
  \A i \in 1..Len(timers) :
    /\ timers[i].delay = ReconnectDelayMs
    /\ timers[i].delay <= 30000

\* C7 witness: the timer of a second consecutive attempt
C7_Witness == \E i \in 1..Len(timers) : timers[i].n >= 2

\* C8: in the reconnect scenario, under fair timers and a server that
\* eventually accepts, a key whose socket was dropped eventually has an open
\* recorded socket again, however many attempts fail in between.
C8_EventuallyReconnected ==
  \A k \in Keys :
    (\E s \in SockIds : KeyOf(s) = k /\ sockets[s].readyState = "CLOSED")
      ~> HasOpen(k)

\* C8 witness: the socket of a second consecutive attempt, made after a failed
\* reconnect attempt, is open and recorded
C8_Witness ==
  \E s \in SockIds :
    /\ sockets[s].attempt >= 2
    /\ sockets[s].readyState = "OPEN"
    /\ connections[KeyOf(s)] = s

\* C9: a reconnect armed by a 4401 close does not open a socket with the
\* token the server rejected.
C9_NoRetryWithRejectedCredential ==
  [][ (TimerRuns /\ Head(timers).code = 4401 /\ Len(sockets') > Len(sockets))
        => sockets'[Len(sockets')].token # Head(timers).token
    ]_vars

\* C10 as claimed: a timer armed by a 4429 close has a longer delay than one
\* armed by another abnormal close.
C10_RateLimitWaitsLonger ==
  \A i, j \in 1..Len(timers) :
    (timers[i].code = 4429 /\ timers[j].code \notin {1000, 4429})
      => timers[i].delay > timers[j].delay

\* C10 as amended: a timer armed by a 4429 close has the same delay as one
\* armed by any other abnormal close.
C10_SameDelayWhenRateLimited ==
  \A i, j \in 1..Len(timers) :
    (timers[i].code = 4429 /\ timers[j].code \notin {1000, 4429})
      => timers[i].delay = timers[j].delay

\* C10 witness: timers armed by a 4429 close and by a 1011 close are pending
C10_Witness ==
  \E i, j \in 1..Len(timers) : timers[i].code = 4429 /\ timers[j].code = 1011

\* the frames handed to sendMessage in this step
NewMsgs == SubSeq(msgs', Len(msgs) + 1, Len(msgs'))

\* a text of blanks only (the empty text included)
IsBlank(text) == \A i \in 1..Len(text) : text[i] = " "

\* text is src without its leading and trailing blanks
IsTrimOf(text, src) ==
  /\ text # <<>> => (Head(text) # " " /\ text[Len(text)] # " ")
  /\ \E lead, trail \in Texts :
       IsBlank(lead) /\ IsBlank(trail) /\ src = lead \o text \o trail

ChatKey == ConnectionKey("/ws/chat/", ChatRoom)

\* C11: a submit of an empty or whitespace-only text has no side effect: no
\* chat_message frame and no typing frame is sent, the service, its sockets
\* and the component are left as they were; a non-empty submit made after a
\* rejected one while the room's socket is open is sent on that socket; and
\* every chat_message frame carries the non-empty trimmed text of the input.
C11_BlankRejectedWithoutSideEffects ==
  [][ /\ (handleSendMessage /\ IsBlank(chat.newMessage))
           => UNCHANGED <<serviceVars, chat, timeouts, now, chatView>>
      /\ IsBlank(chat.newMessage)
           => \A i \in 1..Len(NewMsgs) :
                NewMsgs[i].message = [type |-> "typing", is_typing |-> TRUE]
      /\ \A i \in 1..Len(NewMsgs) :
           NewMsgs[i].message.type = "chat_message"
             => /\ NewMsgs[i].message.message # <<>>
                /\ IsTrimOf(NewMsgs[i].message.message, chat.newMessage)
      /\ (handleSendMessage /\ ~IsBlank(chat.newMessage)
            /\ chatHist.rejectedAt >= 0 /\ HasOpen(ChatKey))
           => /\ Len(NewMsgs) = 2
              /\ NewMsgs[1].message.type = "chat_message"
              /\ NewMsgs[1].sock = connections[ChatKey]
    ]_vars

\* C11 witness: a whitespace-only submit was rejected, and a later submit
\* went out on the open socket as "a"
C11_Witness ==
  /\ chatHist.rejectedAt >= 0
  /\ \E i \in 1..Len(msgs) :
       /\ i > chatHist.rejectedAt
       /\ msgs[i].message = [type |-> "chat_message", message |-> <<"a">>]
       /\ msgs[i].sock # 0
       /\ sockets[msgs[i].sock].readyState = "OPEN"

\* C12: a chat send that fails (no socket recorded for the room, or the
\* socket not OPEN) is not silently discarded: the component keeps the typed
\* text, so that the user sees the message was not sent and can retry.
\* The component has no other state that could hold a failed message.
C12_FailedSendSurfaced ==
  [][ \A i \in 1..Len(NewMsgs) :
        (NewMsgs[i].message.type = "chat_message" /\ NewMsgs[i].sock = 0)
          => chat'.newMessage = chat.newMessage
    ]_vars

TypingStart == [type |-> "typing", is_typing |-> TRUE]

TypingStop == [type |-> "typing", is_typing |-> FALSE]

\* C13: the typing-stop timer is restartable. Every keystroke hands an
\* is_typing:true frame to sendMessage, cancels the pending timeout and arms
\* a new one due two seconds later, so at most one timeout is pending at any
\* time; and the is_typing:false frame of a timeout is sent only when at
\* least two seconds have passed since the most recent keystroke.
C13_TypingTimerRestartable ==
  [][ /\ Cardinality(timeouts'.pending) <= 1
      /\ timeouts'.armed # timeouts.armed
           => /\ NewMsgs = <<[key |-> ChatKey,
                               sock |-> IF HasOpen(ChatKey)
                                        THEN connections[ChatKey] ELSE 0,
                               message |-> TypingStart]>>
              /\ timeouts'.pending = {[id |-> timeouts'.armed,
                                       due |-> now + 2000]}
      /\ (Len(NewMsgs) = 1 /\ NewMsgs[1].message = TypingStop)
           => /\ chatHist.lastKey >= 0
              /\ now >= chatHist.lastKey + 2000
    ]_vars

\* C13 witness: two keystrokes one second apart, and the stop frame of the
\* second timeout sent on the open socket two seconds after the second
C13_Witness ==
  /\ timeouts = [armed |-> 2, pending |-> {}]
  /\ chatHist.lastKey = 1000
  /\ now = 3000
  /\ Len(msgs) = 3
  /\ msgs[3].message = TypingStop
  /\ msgs[3].sock # 0

\* the latest typing frame that went out for the room says is_typing:true:
\* the peers show the user as typing
ShownTyping ==
  \E i \in 1..Len(msgs) :
    /\ msgs[i].sock # 0
    /\ msgs[i].message = TypingStart
    /\ \A j \in (i+1)..Len(msgs) :
         ~(msgs[j].sock # 0 /\ msgs[j].message = TypingStop)

\* C14: every typing-start frame the client sends for a room is eventually
\* followed by a typing-stop frame that is actually sent for that room,
\* also when the component unmounts or the socket drops before the timeout
\* runs.
C14_TypingEventuallyStops == ShownTyping ~> ~ShownTyping

\* C17: a parsed frame whose type the Chat handler has no case for is
\* dropped: messages, onlineUsers and typingUsers stay as they were, no
\* socket is closed and nothing is unregistered; and a chat_message frame
\* arriving after such a frame is still shown.
C17_UnknownTypeDropped ==
  [][ /\ (FrameArrives /\ lastFrame'.data.isObject
            /\ lastFrame'.data.type \notin ChatTypes)
           => /\ chatView' = chatView
              /\ sockets' = sockets
              /\ connections' = connections
              /\ messageHandlers' = messageHandlers
      /\ (FrameArrives /\ chatHist.unknownAt >= 0
            /\ lastFrame'.data.isObject
            /\ lastFrame'.data.type = "chat_message")
           => chatView'.messages = <<lastFrame'.data>> \o chatView.messages
    ]_vars

\* C17 witness: a frame of an unknown type arrived, and the chat_message
\* frame that arrived after it on the same open socket is shown
C17_Witness ==
  /\ chatHist.unknownAt >= 0
  /\ frames >= chatHist.unknownAt + 2
  /\ lastFrame.valid
  /\ lastFrame.data.type = "chat_message"
  /\ chatView.messages = <<lastFrame.data>>
  /\ sockets[lastFrame.sock].readyState = "OPEN"

\* C15: the task_update path is notify-only and ordered after the durable
\* write: a task_update frame is handed to sendMessage only for a status
\* change whose REST update has succeeded, a failed REST update produces no
\* frame, and sending or dropping a frame leaves the committed task status
\* as it is.
C15_NotifyAfterDurableWrite ==
  [][ \A i \in 1..Len(NewMsgs) :
        NewMsgs[i].message.type = "task_update"
          => /\ \E req \in tasksPage.pending \ tasksPage'.pending :
                  /\ req.result = "fulfilled"
                  /\ req.status = NewMsgs[i].message.updates.status
             /\ taskStatus' = taskStatus
    ]_vars

\* C16: when the project socket delivers a frame of type task_update, the
\* type sendTaskUpdate sends, the handler of the Tasks page re-fetches the
\* task list.
C16_TaskUpdateRefetches ==
  [][ (FrameArrives /\ lastFrame'.data.isObject
         /\ lastFrame'.data.type = "task_update"
         /\ calls' = <<"tasks">>)
        => tasksPage'.fetches = tasksPage.fetches + 1
    ]_vars

\* the flag the claim maps each notification type to
C18_FlagTable ==
  [t \in NotificationTypes |->
     CASE t = "task_assigned"     -> "task_assignments"
       [] t = "task_updated"      -> "task_updates"
       [] t = "project_updated"   -> "project_updates"
       [] t = "deadline_reminder" -> "deadline_reminders"
       [] t = "mention"           -> "mentions"
       [] t = "comment_added"     -> "comments"
       [] OTHER                   -> "other"]

\* C18: isEmailNotificationEnabled returns false when the preferences or
\* their email_notifications block are missing or the global enabled flag is
\* off; otherwise it returns the flag the type is mapped to (false when that
\* flag is absent), and the flag 'other' for every type without a mapping.
C18_EmailEnabledByFlag ==
  email.result # "none" =>
    IF email.prefs.isNull \/ ~email.prefs.hasBlock
       \/ email.prefs.block["enabled"] # "true"
    THEN email.result = "false"
    ELSE email.result =
           IF email.prefs.block[C18_FlagTable[email.type]] = "true"
           THEN "true" ELSE "false"

\* C18 witness: the preferences of testEmailPreferences (part_003:98-109)
\* asked about a type without a mapping: the result is the 'other' flag
C18_Witness ==
  /\ email.prefs.hasBlock
  /\ email.prefs.block = [f \in Flags \cup {"enabled"} |->
                            IF f \in {"task_updates", "comments"}
                            THEN "false" ELSE "true"]
  /\ email.type = "comment_deleted"
  /\ email.result = "true"

\* the connections of user u attached to room r
Attached(r, u) ==
  {c \in SrvConns : srvConns[c].state = "active" /\ srvConns[c].room = r
                     /\ UserOf(c) = u}

\* C19: presence is reference-counted per (room, user): the status is
\* offline exactly when no connection of the user is attached to the room;
\* a detach that leaves another connection of the user in the room leaves
\* the status as it was, not offline, and emits no presence-changed
\* envelope.
C19_PresenceReferenceCounted ==
  [][ \A r \in SrvRooms, u \in SrvUsers :
        /\ presence'.refs[<<r, u>>] = Cardinality(Attached(r, u)')
        /\ presence'.status[<<r, u>>] = "offline" <=> Attached(r, u)' = {}
        /\ (presence.refs[<<r, u>>] >= 2
              /\ presence'.refs[<<r, u>>] = presence.refs[<<r, u>>] - 1)
             => /\ presence'.status[<<r, u>>] = presence.status[<<r, u>>]
                /\ presence'.status[<<r, u>>] # "offline"
                /\ \A c \in SrvConns : srvConns'[c].todo = srvConns[c].todo
    ]_vars

\* C19 witness: A and B, both of user ann, joined "standup"; A is closed, B
\* is still attached and ann is online
C19_Witness ==
  /\ srvConns["A"].state = "closed"
  /\ srvConns["A"].room = "standup"
  /\ srvConns["B"].state = "active"
  /\ srvConns["B"].room = "standup"
  /\ presence.refs[<<"standup", "ann">>] = 1
  /\ presence.status[<<"standup", "ann">>] = "online"

\* C20: room-local total order. The sequence numbers assigned in a room are
\* 1, 2, 3, ... in the order the broadcasts began; every connection is
\* handed the envelopes of a room in increasing sequence order; and a
\* connection attached to a room has been handed every envelope whose
\* broadcast began after it joined, except those a broadcast still in its
\* critical section has yet to hand to it.
C20_RoomLocalTotalOrder ==
  /\ \A r \in SrvRooms :
       /\ Len(registry.log[r]) = registry.seq[r]
       /\ \A i \in 1..Len(registry.log[r]) : registry.log[r][i].seq = i
  /\ \A c \in SrvConns :
       \A i, j \in 1..Len(inbox[c]) :
         (i < j /\ inbox[c][i].room = inbox[c][j].room)
           => inbox[c][i].seq < inbox[c][j].seq
  /\ \A c \in SrvConns :
       srvConns[c].state = "active" =>
         \A n \in (srvConns[c].joinedAt + 1)..registry.seq[srvConns[c].room] :
           \/ \E b \in registry.inflight :
                b.room = srvConns[c].room /\ b.seq = n /\ c \in b.snapshot
           \/ \E i \in 1..Len(inbox[c]) :
                inbox[c][i] = [room |-> srvConns[c].room, seq |-> n]

\* C20 witness: two broadcasts to "standup" by different connections, and a
\* connection that was handed both, the first before the second
C20_Witness ==
  /\ registry.seq["standup"] = 2
  /\ registry.log["standup"][1].by # registry.log["standup"][2].by
  /\ \E c \in SrvConns :
       inbox[c] = <<[room |-> "standup", seq |-> 1],
                    [room |-> "standup", seq |-> 2]>>

\* the envelopes handed to the broadcast so far: those waiting in a
\* connection's task and those whose broadcast has begun
Dispatched ==
  UNION {{srvConns[c].todo[i] : i \in 1..Len(srvConns[c].todo)} : c \in SrvConns}
  \cup UNION {{registry.log[r][i].body : i \in 1..Len(registry.log[r])} : r \in SrvRooms}

\* the chat message behind an envelope a connection was handed
Received(c) ==
  {registry.log[inbox[c][i].room][inbox[c][i].seq].body : i \in 1..Len(inbox[c])}

\* C21: persist before fan-out. Every chat_message handed to the broadcast,
\* and so every one a subscriber received, is in the history; a message
\* whose append failed is answered with an error to its sender and is
\* neither handed to the broadcast nor received by any subscriber; every
\* frame handled is either in the history or answered with an error.
C21_PersistBeforeFanOut ==
  /\ \A e \in Dispatched : e.type = "chat_message" => e.id \in router.history
  /\ \A c \in SrvConns : \A e \in Received(c) :
       e.type = "chat_message" => e.id \in router.history
  /\ \A c \in SrvConns : \A x \in router.errors[c] :
       /\ x.id \notin router.history
       /\ \A e \in Dispatched : e.type = "chat_message" => e.id # x.id
       /\ \A m \in SrvConns : \A e \in Received(m) :
            e.type = "chat_message" => e.id # x.id
  /\ \A id \in 1..router.handled :
       id \in router.history
         <=> ~ \E c \in SrvConns : \E x \in router.errors[c] : x.id = id

\* C21 witness: one message failed to be appended and its sender has the
\* error, another one was appended and a subscriber received it
C21_Witness ==
  /\ \E c \in SrvConns : \E x \in router.errors[c] : x.error = "AppendError"
  /\ \E m \in SrvConns : \E e \in Received(m) : e.type = "chat_message"

\* the close event of socket s is processed in this step
CloseEventOf(s) ==
  sockets[s].readyState # "CLOSED" /\ sockets'[s].readyState = "CLOSED"

\* C22: the close event of a socket never removes a newer socket's entry:
\* when the close event of a socket is processed while connections records
\* another socket under its key, that socket is still recorded afterwards.
C22_CloseKeepsNewerSocket ==
  [][ \A s \in SockIds :
        (CloseEventOf(s) /\ connections[KeyOf(s)] \notin {0, s})
          => connections'[KeyOf(s)] = connections[KeyOf(s)] ]_vars

\* the sockets of key k that are connecting or open
Live(k) ==
  {s \in SockIds : KeyOf(s) = k /\ sockets[s].readyState \in {"CONNECTING", "OPEN"}}

\* C23: at every moment at most one socket per key is connecting or open,
\* and it is the one connections records under the key (a socket that is
\* closing after disconnect is not counted).
C23_OneLiveSocketPerKey ==
  \A k \in Keys :
    /\ Cardinality(Live(k)) <= 1
    /\ \A s \in Live(k) : connections[k] = s

\* C24: a connect called while no socket is recorded for the key creates
\* and records one.
C24_ConnectAlwaysCreates ==
  [][ \A u \in Urls, r \in Rooms :
        (Connect(u, r) /\ connections[ConnectionKey(u, r)] = 0)
          => connections'[ConnectionKey(u, r)] # 0 ]_vars

\* C25: for each parsed frame, the handlers registered for the socket's key
\* when the frame arrives are each invoked once, in registration order, and
\* nothing else is invoked, whatever the handlers do when called.
C25_EveryHandlerOncePerFrame ==
  [][ (frames' = frames + 1 /\ lastFrame'.valid)
        => calls' = messageHandlers[KeyOf(lastFrame'.sock)] ]_vars

\* C26: when the history request settles, every chat message the component
\* received while the request was in flight is still in the list, as many
\* times as it was received.
C26_LiveMessagesSurviveHistory ==
  [][ (mounts.request = "inflight" /\ mounts'.request = "done")
        => \A i \in 1..Len(chatView.messages) :
             Count(chatView.messages[i], chatView'.messages)
               = Count(chatView.messages[i], chatView.messages) ]_vars

\* the store and localStorage hold no session
LoggedOut ==
  /\ auth.user = "null" /\ auth.access = "null" /\ auth.refresh = "null"
  /\ storage.access = "null" /\ storage.refresh = "null"

\* what C28 says of request r in every state
AtMostOneRefreshAndRetry(r) ==
  /\ http[r].refreshes <= 1
  /\ Len(http[r].sends) <= 2
  /\ Len(http[r].sends) = 2 <=> http[r].fresh # "null"
  /\ http[r].fresh # "null" => http[r].sends[2] = http[r].fresh
  /\ (Len(http[r].sends) = 2 /\ http[r].status = 401)
       => http[r].phase = "rejected" /\ http[r].refreshes = 1
  /\ (http[r].retry /\ http[r].refreshes = 0)
       => http[r].phase = "rejected" /\ Len(http[r].sends) = 1
  /\ http[r].logout
       => http[r].phase = "rejected" /\ Len(http[r].sends) = 1
          /\ http[r].refreshes = 1

\* C28: a request answered with 401 causes at most one refresh and one
\* retry: after a successful refresh it is issued once more, with the new
\* access token; a 401 on the retry is returned as an error without another
\* refresh; without a refresh token there is no refresh and no retry; a
\* failed refresh dispatches logout; and every request that was issued is
\* eventually resolved or rejected.
C28_OneRefreshOneRetry ==
  /\ [](\A r \in Requests : AtMostOneRefreshAndRetry(r))
  /\ [][ \A r \in Requests :
           /\ (http[r].phase = "refreshing" /\ http'[r].phase = "rejected")
                => LoggedOut' /\ http'[r].logout
           /\ (http[r].phase = "sent" /\ http'[r].phase = "refreshing")
                => IsTruthy(auth.refresh) /\ http[r].status = 0
                   /\ Len(http[r].sends) = 1 ]_vars
  /\ \A r \in Requests :
       (http[r].phase \in {"sent", "refreshing"})
         ~> (http[r].phase \in {"resolved", "rejected"})

\* C28 witness: a request was answered with 401, the refresh gave a new
\* token, the request was issued again with it and answered with 401 again
C28_Witness ==
  \E r \in Requests :
    /\ http[r].fresh # "null"
    /\ http[r].sends[1] # http[r].fresh
    /\ http[r].sends[2] = http[r].fresh
    /\ http[r].status = 401
    /\ http[r].phase = "rejected"

\* logout is dispatched in this step, by the user or by the interceptor
LogoutDispatched ==
  \/ Logout
  \/ \E r \in Requests, access \in AccessTokens : RefreshRespond(r, FALSE, access)

\* C29: the access and refresh tokens of the store always equal the items
\* 'access' and 'refresh' of localStorage; after logout user, access and
\* refresh are null and both items are absent; a protected route renders
\* its children only while an access token is stored.
C29_StoreMatchesLocalStorage ==
  /\ [](/\ auth.access = storage.access
        /\ auth.refresh = storage.refresh
        /\ PrivateRoute = "children" => storage.access # "null")
  /\ [][LogoutDispatched => LoggedOut']_vars

\* C29 witness: a user logged in and the interceptor replaced the access
\* token; the store and localStorage hold the new one
C29_Witness ==
  /\ auth.user = "ann"
  /\ \E r \in Requests :
       /\ http[r].fresh # "null"
       /\ http[r].sends[1] \notin {"none", http[r].fresh}
       /\ auth.access = http[r].fresh
       /\ storage.access = http[r].fresh

\* C27: with the access token of a logged-in user in the auth state and a
\* room selected, the effect of Chat sends the history request and records
\* the chat socket of the room; with a user and that token, the effects of
\* Notifications and Tasks record their sockets.
C27_AccessTokenEnablesSockets ==
  [][ /\ (ChatEffect /\ IsTruthy(auth.access) /\ IsTruthy(auth.user)
            /\ IsTruthy(ChatRoom))
           => /\ mounts'.request = "inflight"
              /\ connections'[ChatKey] # 0
      /\ (TasksEffect /\ IsTruthy(auth.access) /\ IsTruthy(auth.user))
           => connections'[ProjectKey] # 0
      /\ (NotificationsEffect /\ IsTruthy(auth.access) /\ IsTruthy(auth.user))
           => connections'[NotificationsKey] # 0 ]_vars
====
